---- MODULE Spec2Model ----
(***************************************************************************)
(* Vegas casino: the scoring service (ScoringController / ScoringService   *)
(* over the game_results and player_scores tables) and the blackjack       *)
(* service (the games map with its gRPC and HTTP handlers, and the         *)
(* frontend proxy in front of the gRPC handlers), the slots service (Spin   *)
(* over gRPC and POST /spin), the dice service (POST /roll) and the         *)
(* whack-a-mole service (the games map with StartGame, Hit, Miss, EndGame). *)
(*                                                                         *)
(* Nullable Java Doubles are sequences: <<>> is null, <<v>> is the value.  *)
(* Amounts are integers (whole currency units).                            *)
(***************************************************************************)
EXTENDS Integers, Sequences, FiniteSets, TLC

\* ------------------------------------------------------------------ bounds
MaxResults == 2     \* rows of game_results a behaviour may insert
MaxScores == 2      \* rows of player_scores a behaviour may insert
MaxClock == 1       \* ticks of the wall clock
MaxTx == 2          \* recordGameResult transactions open at the same time
MaxCalls == 1       \* blackjack handlers suspended at an await at the same time
MaxDeals == 1       \* blackjack hands dealt in a behaviour
MaxHand == 3        \* cards a player's hand may grow to
MaxBoardRows == 3   \* rows of player_scores a leaderboard is asked over
MaxHits == 30       \* hits a whack-a-mole game may count
MaxMisses == 2      \* misses a whack-a-mole game may count
MaxWamTicks == 3    \* steps of the whack-a-mole service's clock
MaxFeReqs == 2      \* requests the frontend accepts in a behaviour

\* ------------------------------------------------------------------ inputs
ScoringUsers == {"alice"}    \* usernames of scoring requests
Players == {"alice"}         \* usernames of blackjack requests
GameInputs == {"blackjack", "dice"}
BetInputs == {<<>>, <<0>>, <<-5>>, <<10>>}
PayoutInputs == {<<>>, <<0>>, <<30>>, <<50>>}
ScoreInputs == {40}
Ranks == {6, 13}             \* the card ranks drawCard() returns here
DealBets == {0, 10}          \* bet_amount / BetAmount of a deal request
BoardUsers == {"alice", "bob"}   \* usernames of the rows a leaderboard ranks
BoardScores == {30, 50}
BoardTimes == {0, 1}
BoardGames == {"all", "blackjack", "dice"}   \* {game} of GET /leaderboard/{game}
LimitInputs == {1, 2}                        \* ?limit=

Symbols == {"cherry", "lemon", "orange", "bell", "star", "diamond", "seven"}
Reels == [1..3 -> Symbols]   \* the three symbols Math.random() picks
SpinBets == {0, -5, 10}      \* bet_amount / BetAmount of a spin request
RollBets == {0, -5, 10}      \* BetAmount of a roll request
BetTypes == {"", "pass", "dont_pass", "field", "snake_eyes", "boxcars",
             "seven_out", "hardways"}   \* BetType of a roll request
WamUsers == {"alice"}        \* usernames of whack-a-mole requests
FeBets == {0, 10}            \* BetAmount of a frontend game request
FePayouts == {0, 20}         \* payout in a game service's gRPC answer
TopupAmounts == {5}          \* Amount of POST /api/user/topup
StoredAtStart == {<<>>, <<10>>, <<20>>}   \* the user's balance key in Redis
ServiceNames == {"vegas-slots-service"}   \* a key of serviceConfigs
ServiceInputs == ServiceNames \cup {"vegas-poker-service"}   \* serviceName of an API call

\* LocalDateTime.now().minusHours(24): one tick of the clock is 24 hours
Day == 1

\* getFeatureFlag('slots.min-bet', 10), getFeatureFlag('slots.max-bet', 1000)
MinBet == 10
MaxBet == 1000

\* whack-a-mole: milliseconds
GAME_DURATION == 60000
INITIAL_MOLE_COUNT == 3
MAX_MOLES == 8

\* frontend: balance of a user without a balance key
DEFAULT_START_BALANCE == 1000

\* service manager: milliseconds
RestartDelay == 1000
HealthDelay == 2000
HealthTimeout == 2000
KeepStopped == 60000
TickMs == 1000       \* what one step of the manager's clock adds

ClockStep == 30000   \* what one step of the whack-a-mole clock adds to Date.now()

VARIABLES
  gameResults,    \* game_results table: sequence of committed rows, by id
  playerScores,   \* player_scores table: sequence of committed rows, by id
  now,            \* the wall clock (LocalDateTime.now())
  tx,             \* open recordGameResult transactions, by slot
  txLimit,        \* how many of the MaxTx slots client calls may occupy
  resp,           \* the response of the last finished scoring call
  dash            \* the getDashboardStats call in progress, if any

VARIABLES
  games,          \* blackjack: the games map, username -> hand in play
  calls,          \* blackjack: handlers suspended at an await, by slot
  dealt,          \* blackjack: number of hands dealt so far (hand ids)
  settled,        \* blackjack: per hand id, how often it was settled
  submitted,      \* blackjack: per hand id, game results sent to scoring
  event           \* blackjack: what the last handler step did

VARIABLES
  round,          \* slots, dice: the answer to the last Spin or Roll
  recording,      \* slots: the recordGameResult call a Spin started last
  recorded,       \* blackjack: per hand id, how its recordGameResult call ended
  wamGames,       \* whack-a-mole: the games map, username -> game
  wamNow,         \* whack-a-mole: Date.now()
  wamResp         \* whack-a-mole: the answer to the last request

VARIABLES
  stored,         \* frontend: the user's balance key in Redis, <<>> if unset
  reqs,           \* frontend: requests in flight, by slot
  feEvent,        \* frontend: what the last handler step did
  feHist,         \* frontend: what the requests so far asked for
  services,       \* service manager: the services map and its children
  timers,         \* service manager: the timers that are set
  mgrResp,        \* service manager: the answer of the last call
  restarting      \* service manager: restarts not yet followed by a spawn

scoringVars == <<gameResults, playerScores, now, tx, txLimit, resp, dash>>

bjVars == <<games, calls, dealt, settled, submitted, event>>

arcadeVars == <<round, recording, recorded, wamGames, wamNow, wamResp>>

frontVars == <<stored, reqs, feEvent, feHist>>

managerVars == <<services, timers, mgrResp, restarting>>

\* everything but the frontend, everything but the service manager
otherVars == <<scoringVars, bjVars, arcadeVars, managerVars>>

hostedVars == <<scoringVars, bjVars, arcadeVars, frontVars>>

vars == <<gameResults, playerScores, now, tx, txLimit, resp, dash,
          games, calls, dealt, settled, submitted, event,
          round, recording, recorded, wamGames, wamNow, wamResp,
          stored, reqs, feEvent, feHist,
          services, timers, mgrResp, restarting>>

\* ------------------------------------------------------------ small helpers
IsNull(x) == x = <<>>
Val(x) == x[1]
RECURSIVE SumSeq(_)
SumSeq(s) == IF s = <<>> THEN 0 ELSE Head(s) + SumSeq(Tail(s))
MaxOf(S) == CHOOSE m \in S : \A y \in S : y <= m
MinOf(S) == CHOOSE m \in S : \A y \in S : m <= y

NoTx == [phase |-> "none"]
NoResp == [op |-> "none"]
NoDash == [phase |-> "none"]

\* ------------------------------------------------------- repository queries
\* indices of player_scores rows of one (username, game) pair
ScoreRowsOf(u, g) ==
  {i \in 1..Len(playerScores) :
     playerScores[i].username = u /\ playerScores[i].game = g}

\* PlayerScoreRepository.findByUsernameAndGameOrderByTimestampDesc, first row:
\* the rows with the latest timestamp (the order among equal timestamps is
\* the database's choice)
LatestScoreRows(u, g) ==
  {i \in ScoreRowsOf(u, g) :
     \A j \in ScoreRowsOf(u, g) : playerScores[j].ts <= playerScores[i].ts}

\* PlayerScoreRepository.findFirstByUsernameAndGameOrderByScoreDesc
BestScore(u, g) == MaxOf({playerScores[i].score : i \in ScoreRowsOf(u, g)})

\* GameResultRepository.countTotalByGame
countTotalByGameMut(g) ==
  Cardinality({i \in 1..Len(gameResults) : gameResults[i].betAmount > 0})
countTotalByGame(g) ==
  Cardinality({i \in 1..Len(gameResults) :
     gameResults[i].game = g /\ gameResults[i].betAmount > 0})

\* GameResultRepository.countWinsByGame
countWinsByGame(g) ==
  Cardinality({i \in 1..Len(gameResults) :
     gameResults[i].game = g /\ gameResults[i].win /\ gameResults[i].betAmount > 0})

\* GameResultRepository.sumBetAmountsByGame
sumBetAmountsByGame(g) ==
  SumSeq([i \in 1..Len(gameResults) |->
            IF gameResults[i].game = g /\ gameResults[i].betAmount > 0
            THEN gameResults[i].betAmount ELSE 0])

\* GameResultRepository.sumPayoutsByGame
sumPayoutsByGame(g) ==
  SumSeq([i \in 1..Len(gameResults) |->
            IF gameResults[i].game = g /\ gameResults[i].betAmount > 0
            THEN gameResults[i].payout ELSE 0])

\* GameResultRepository.findByGameAndTimestampBetweenOrderByTimestampDesc, size
countRecentByGame(g, start, end) ==
  Cardinality({i \in 1..Len(gameResults) :
     /\ gameResults[i].game = g
     /\ gameResults[i].betAmount > 0
     /\ start <= gameResults[i].ts /\ gameResults[i].ts <= end})

\* the DashboardStats that getDashboardStats fills from the answers of its
\* queries. A rate or an average is the exact quotient num / den.
DashboardStatsOf(g, totalGames, totalWins, totalBet, totalPayout, recent) ==
  [game |-> g,
   totalGames |-> totalGames,
   totalWins |-> totalWins,
   totalLosses |-> totalGames - totalWins,
   winRate |-> IF totalGames > 0
               THEN [num |-> totalWins * 100, den |-> totalGames]
               ELSE [num |-> 0, den |-> 1],
   totalBetAmount |-> totalBet,
   totalPayout |-> totalPayout,
   netRevenue |-> totalBet - totalPayout,
   averageBetAmount |-> IF totalGames > 0
                        THEN [num |-> totalBet, den |-> totalGames]
                        ELSE [num |-> 0, den |-> 1],
   averagePayout |-> IF totalGames > 0
                     THEN [num |-> totalPayout, den |-> totalGames]
                     ELSE [num |-> 0, den |-> 1],
   recentGames |-> recent]

\* ScoringService.getDashboardStats when nothing commits during the call
getDashboardStats(g) ==
  DashboardStatsOf(g, countTotalByGame(g), countWinsByGame(g),
                   sumBetAmountsByGame(g), sumPayoutsByGame(g),
                   countRecentByGame(g, now - Day, now))

\* ------------------------------------------------------------ leaderboards
\* the orders in which a query without a complete ORDER BY, or a HashMap,
\* may hand out the rows S
SeqsOf(S) ==
  {f \in [1..Cardinality(S) -> S] :
     \A i, j \in 1..Cardinality(S) : i # j => f[i] # f[j]}

\* ORDER BY score DESC / sorted((a, b) -> Double.compare(b.getScore(),
\* a.getScore())): rows of equal score come in any order
ByScoreDesc(S) ==
  {f \in SeqsOf(S) :
     \A i, j \in 1..Cardinality(S) :
       i < j => playerScores[f[i]].score >= playerScores[f[j]].score}

\* LIMIT :limit / .limit(limit)
FirstN(f, n) == SubSeq(f, 1, IF Len(f) < n THEN Len(f) ELSE n)

\* PlayerScoreRepository.findTopNByGame: the row ids it may return
findTopNByGame(g, limit) ==
  {FirstN(f, limit) :
     f \in ByScoreDesc({i \in 1..Len(playerScores) : playerScores[i].game = g})}

\* Collectors.toMap(getUsername, score -> score, (a, b) -> a.getScore() >
\* b.getScore() ? a : b) over findAll(): the rows that can stay for a user
BestRowsOfMut(u) ==
  {i \in 1..Len(playerScores) : playerScores[i].username = u}
BestRowsOf(u) ==
  {i \in 1..Len(playerScores) :
     /\ playerScores[i].username = u
     /\ \A j \in 1..Len(playerScores) :
          playerScores[j].username = u =>
            playerScores[j].score <= playerScores[i].score}

\* ScoringService.getTopPlayers: the row ids, in order, that it may return
getTopPlayers(game, limit) ==
  IF game = "all"
  THEN LET users == {playerScores[i].username : i \in 1..Len(playerScores)}
           kept == {c \in [users -> 1..Len(playerScores)] :
                      \A u \in users : c[u] \in BestRowsOf(u)}
       IN UNION {{FirstN(f, limit) : f \in ByScoreDesc({c[u] : u \in users})} :
                 c \in kept}
  ELSE findTopNByGame(game, limit)

\* ------------------------------------------------------------ scoring calls
\* ScoringController.recordGameResult: the betAmount check
BetRejectedMut(bet) == IF IsNull(bet) THEN TRUE ELSE Val(bet) < 0
BetRejected(bet) == IF IsNull(bet) THEN TRUE ELSE Val(bet) <= 0

\* ScoringService.recordGameResult: "this is a better game"
IsBetterMut(payout, currentBestPayout) == payout < currentBestPayout
IsBetter(payout, currentBestPayout) == payout > currentBestPayout

\* the metadata string written with a created or improved score
ScoreMetadata(bet, payout) ==
  [kind |-> "game", initial_bet |-> bet, winnings |-> payout,
   net_winnings |-> payout - bet, timestamp |-> now]

FreeSlots == {s \in 1..MaxTx : tx[s] = NoTx}
OpenTx == {s \in 1..MaxTx : tx[s] # NoTx}

\* POST /api/scoring/game-result with betAmount null, zero or negative:
\* 400, nothing else happens (the other fields of the request are only logged)
RejectGameResult(bet) ==
  /\ BetRejected(bet)
  /\ resp' = [op |-> "gameResult", status |-> 400, betAmount |-> bet]
  /\ UNCHANGED <<gameResults, playerScores, now, tx, txLimit>>
  /\ UNCHANGED dash
  /\ UNCHANGED bjVars
  /\ UNCHANGED <<arcadeVars, frontVars, managerVars>>

\* POST /api/scoring/game-result, accepted: the transaction inserts the
\* game_results row and reads the pair's most recent player_scores row
BeginGameResult(u, g, bet, payout, win) ==
  /\ ~BetRejected(bet)
  /\ Cardinality(OpenTx) < txLimit
  /\ Len(gameResults) + Cardinality(OpenTx) < MaxResults
  /\ Len(playerScores) + Cardinality(OpenTx) < MaxScores
  /\ \E s \in {MinOf(FreeSlots)} :
       \E found \in (IF ScoreRowsOf(u, g) = {} THEN {0} ELSE LatestScoreRows(u, g)) :
         tx' = [tx EXCEPT ![s] =
                  [phase |-> "read", username |-> u, game |-> g,
                   betAmount |-> Val(bet), payout |-> payout, win |-> win,
                   existing |-> found,
                   read |-> IF found = 0 THEN NoTx ELSE playerScores[found]]]
  /\ UNCHANGED <<gameResults, playerScores, now, txLimit, resp>>
  /\ UNCHANGED dash
  /\ UNCHANGED bjVars
  /\ UNCHANGED <<arcadeVars, frontVars, managerVars>>

\* the transaction throws (payout - betAmount with a null payout) and is
\* rolled back: 500, nothing persisted
AbortGameResult(s) ==
  /\ tx[s] # NoTx
  /\ IsNull(tx[s].payout)
  /\ tx' = [tx EXCEPT ![s] = NoTx]
  /\ resp' = [op |-> "gameResult", status |-> 500, betAmount |-> <<tx[s].betAmount>>]
  /\ UNCHANGED <<gameResults, playerScores, now, txLimit>>
  /\ UNCHANGED dash
  /\ UNCHANGED bjVars
  /\ UNCHANGED <<arcadeVars, frontVars, managerVars>>

\* the player_scores table after the transaction's save(): the row it read is
\* written back with a higher score, the time and new metadata, or with the
\* time only; without a row a new one is inserted
SavedScoresMut(t) ==
  LET payout == Val(t.payout) IN
  IF t.existing # 0
  THEN IF IsBetter(payout, t.read.score)
       THEN [playerScores EXCEPT ![t.existing] =
               [t.read EXCEPT !.score = payout, !.ts = now,
                              !.metadata = ScoreMetadata(t.betAmount, payout)]]
       ELSE playerScores
  ELSE Append(playerScores,
              [id |-> Len(playerScores) + 1, username |-> t.username,
               role |-> "player", game |-> t.game, score |-> payout, ts |-> now,
               metadata |-> ScoreMetadata(t.betAmount, payout)])
SavedScores(t) ==
  LET payout == Val(t.payout) IN
  IF t.existing # 0
  THEN IF IsBetter(payout, t.read.score)
       THEN [playerScores EXCEPT ![t.existing] =
               [t.read EXCEPT !.score = payout, !.ts = now,
                              !.metadata = ScoreMetadata(t.betAmount, payout)]]
       ELSE [playerScores EXCEPT ![t.existing] = [t.read EXCEPT !.ts = now]]
  ELSE Append(playerScores,
              [id |-> Len(playerScores) + 1, username |-> t.username,
               role |-> "player", game |-> t.game, score |-> payout, ts |-> now,
               metadata |-> ScoreMetadata(t.betAmount, payout)])

\* the transaction commits: 201
CommitGameResult(s) ==
  /\ tx[s] # NoTx
  /\ ~IsNull(tx[s].payout)
  /\ gameResults' = Append(gameResults,
        [id |-> Len(gameResults) + 1, username |-> tx[s].username,
         game |-> tx[s].game, betAmount |-> tx[s].betAmount,
         payout |-> Val(tx[s].payout), win |-> tx[s].win, ts |-> now])
  /\ playerScores' = SavedScores(tx[s])
  /\ tx' = [tx EXCEPT ![s] = NoTx]
  /\ resp' = [op |-> "gameResult", status |-> 201, betAmount |-> <<tx[s].betAmount>>]
  /\ UNCHANGED <<now, txLimit>>
  /\ UNCHANGED dash
  /\ UNCHANGED bjVars
  /\ UNCHANGED <<arcadeVars, frontVars, managerVars>>

\* POST /api/scoring/record: ScoringService.recordScore always inserts a row
RecordScore(u, g, score) ==
  /\ Len(playerScores) + Cardinality(OpenTx) < MaxScores
  /\ playerScores' = Append(playerScores,
        [id |-> Len(playerScores) + 1, username |-> u, role |-> "player",
         game |-> g, score |-> score, ts |-> now,
         metadata |-> [kind |-> "client"]])
  /\ resp' = [op |-> "record", status |-> 201]
  /\ UNCHANGED <<gameResults, now, tx, txLimit>>
  /\ UNCHANGED dash
  /\ UNCHANGED bjVars
  /\ UNCHANGED <<arcadeVars, frontVars, managerVars>>

\* time passes
Tick ==
  /\ now < MaxClock
  /\ now' = now + 1
  /\ UNCHANGED <<gameResults, playerScores, tx, txLimit, resp>>
  /\ UNCHANGED dash
  /\ UNCHANGED bjVars
  /\ UNCHANGED <<arcadeVars, frontVars, managerVars>>

\* GET /api/scoring/dashboard/{game}: getDashboardStats is not transactional,
\* every repository query is a statement of its own and sees what is
\* committed when it runs. First query: countTotalByGame
DashTotal(g) ==
  /\ dash = NoDash
  /\ dash' = [phase |-> "total", game |-> g, totalGames |-> countTotalByGame(g)]
  /\ UNCHANGED <<gameResults, playerScores, now, tx, txLimit, resp>>
  /\ UNCHANGED bjVars
  /\ UNCHANGED <<arcadeVars, frontVars, managerVars>>

\* second query: countWinsByGame
DashWins ==
  /\ dash.phase = "total"
  /\ dash' = [phase |-> "wins", game |-> dash.game,
              totalGames |-> dash.totalGames,
              totalWins |-> countWinsByGame(dash.game)]
  /\ UNCHANGED <<gameResults, playerScores, now, tx, txLimit, resp>>
  /\ UNCHANGED bjVars
  /\ UNCHANGED <<arcadeVars, frontVars, managerVars>>

\* third query: sumBetAmountsByGame
DashBet ==
  /\ dash.phase = "wins"
  /\ dash' = [phase |-> "bet", game |-> dash.game,
              totalGames |-> dash.totalGames, totalWins |-> dash.totalWins,
              totalBet |-> sumBetAmountsByGame(dash.game)]
  /\ UNCHANGED <<gameResults, playerScores, now, tx, txLimit, resp>>
  /\ UNCHANGED bjVars
  /\ UNCHANGED <<arcadeVars, frontVars, managerVars>>

\* fourth query: sumPayoutsByGame
DashPayout ==
  /\ dash.phase = "bet"
  /\ dash' = [phase |-> "payout", game |-> dash.game,
              totalGames |-> dash.totalGames, totalWins |-> dash.totalWins,
              totalBet |-> dash.totalBet,
              totalPayout |-> sumPayoutsByGame(dash.game)]
  /\ UNCHANGED <<gameResults, playerScores, now, tx, txLimit, resp>>
  /\ UNCHANGED bjVars
  /\ UNCHANGED <<arcadeVars, frontVars, managerVars>>

\* fifth query (the results of the last 24 hours) and the answer
DashFinish ==
  /\ dash.phase = "payout"
  /\ resp' = [op |-> "dashboard", status |-> 200,
              stats |-> DashboardStatsOf(dash.game, dash.totalGames,
                          dash.totalWins, dash.totalBet, dash.totalPayout,
                          countRecentByGame(dash.game, now - Day, now))]
  /\ dash' = NoDash
  /\ UNCHANGED <<gameResults, playerScores, now, tx, txLimit>>
  /\ UNCHANGED bjVars
  /\ UNCHANGED <<arcadeVars, frontVars, managerVars>>

\* GET /api/scoring/leaderboard/{game}?limit=
GetLeaderboard(game, limit) ==
  /\ \E ids \in getTopPlayers(game, limit) :
       resp' = [op |-> "leaderboard", status |-> 200, game |-> game,
                limit |-> limit, ids |-> ids]
  /\ UNCHANGED <<gameResults, playerScores, now, tx, txLimit, dash>>
  /\ UNCHANGED bjVars
  /\ UNCHANGED <<arcadeVars, frontVars, managerVars>>

\* List.of("slots", "roulette", "dice", "blackjack")
AllGamesMut == <<"blackjack", "dice", "roulette", "slots">>
AllGames == <<"slots", "roulette", "dice", "blackjack">>

\* the emptyStats row of the catch block
EmptyStats(g) ==
  [game |-> g, totalGames |-> 0, totalWins |-> 0, totalLosses |-> 0,
   winRate |-> [num |-> 0, den |-> 1],
   totalBetAmount |-> 0, totalPayout |-> 0, netRevenue |-> 0,
   averageBetAmount |-> [num |-> 0, den |-> 1],
   averagePayout |-> [num |-> 0, den |-> 1],
   recentGames |-> 0]

\* GET /api/scoring/dashboard: getAllGamesDashboardStats maps each game to
\* getDashboardStats(game), or to emptyStats when that call throws (failed:
\* the games whose queries throw during this request); a request during
\* which nothing is committed
GetAllDashboards(failed) ==
  LET Top(g) == IF g \in failed THEN {<<>>} ELSE getTopPlayers(g, 10)
      Row(g, top) == [stats |-> IF g \in failed THEN EmptyStats(g)
                                ELSE getDashboardStats(g),
                      topPlayers |-> top]
  IN
  /\ dash = NoDash
  /\ \E t1 \in Top(AllGames[1]), t2 \in Top(AllGames[2]),
        t3 \in Top(AllGames[3]), t4 \in Top(AllGames[4]) :
       resp' = [op |-> "dashboardAll", status |-> 200, failed |-> failed,
                rows |-> <<Row(AllGames[1], t1), Row(AllGames[2], t2),
                           Row(AllGames[3], t3), Row(AllGames[4], t4)>>]
  /\ UNCHANGED <<gameResults, playerScores, now, tx, txLimit, dash>>
  /\ UNCHANGED bjVars
  /\ UNCHANGED <<arcadeVars, frontVars, managerVars>>

\* --------------------------------------------------------------- blackjack
\* A card is its rank, 1 (ace) .. 13 (king); the suit is only displayed.
NoGame == [id |-> 0]
Idle == [op |-> "idle"]
NoEvent == [op |-> "none", user |-> "", step |-> "none", status |-> "none"]

CardValue(rank) == IF rank = 1 THEN 11 ELSE IF rank > 10 THEN 10 ELSE rank

\* while (score > 21 && aces > 0) { score -= 10; aces--; }
RECURSIVE SoftReduce(_, _)
SoftReduceMut(score, aces) ==
  IF score > 21 /\ aces > 0 THEN score - 10 ELSE score
SoftReduce(score, aces) ==
  IF score > 21 /\ aces > 0 THEN SoftReduce(score - 10, aces - 1) ELSE score

scoreHand(hand) ==
  SoftReduce(SumSeq([i \in 1..Len(hand) |-> CardValue(hand[i])]),
             Cardinality({i \in 1..Len(hand) : hand[i] = 1}))

\* bet_amount || 10, Number(p.BetAmount || 10)
BetOrDefault(bet) == IF bet = 0 THEN 10 ELSE bet

\* games.get(Username)
LookupMut(u) ==
  IF games[u] = NoGame
  THEN [id |-> 1, playerHand |-> <<>>, dealerHand |-> <<13, 13>>, betAmount |-> 10]
  ELSE games[u]
Lookup(u) == games[u]

\* while (scoreHand(g.dealerHand) < 17)
DealerDrawsMut(hand) == scoreHand(hand) < 16
DealerDraws(hand) == scoreHand(hand) < 17

\* the dealer's hands the loop can end with
RECURSIVE DealerPlay(_)
DealerPlay(hand) ==
  IF DealerDraws(hand)
  THEN UNION {DealerPlay(Append(hand, r)) : r \in Ranks}
  ELSE {hand}

SettleResultMut(playerScore, dealerScore) ==
  IF playerScore > 21 THEN "lose"
  ELSE IF dealerScore > 21 \/ playerScore >= dealerScore THEN "win"
  ELSE IF playerScore = dealerScore THEN "push"
  ELSE "lose"
SettleResult(playerScore, dealerScore) ==
  IF playerScore > 21 THEN "lose"
  ELSE IF dealerScore > 21 \/ playerScore > dealerScore THEN "win"
  ELSE IF playerScore = dealerScore THEN "push"
  ELSE "lose"

SettlePayout(result, betAmount) ==
  IF result = "win" THEN betAmount * 2
  ELSE IF result = "push" THEN betAmount
  ELSE 0

FreeCalls == {s \in DOMAIN calls : calls[s] = Idle}
Bump(f, id) == [f EXCEPT ![id] = @ + 1]

NewGame(p1, p2, d1, d2, bet) ==
  [id |-> dealt + 1, playerHand |-> <<p1, p2>>, dealerHand |-> <<d1, d2>>,
   betAmount |-> BetOrDefault(bet)]

\* app.post('/deal'): runs to completion
DealHttp(u, bet, p1, p2, d1, d2) ==
  /\ dealt < Len(settled)
  /\ games' = [games EXCEPT ![u] = NewGame(p1, p2, d1, d2, bet)]
  /\ dealt' = dealt + 1
  /\ event' = [op |-> "deal", user |-> u, step |-> "arrive", status |-> "ok",
               playerScore |-> scoreHand(<<p1, p2>>)]
  /\ UNCHANGED <<calls, settled, submitted>>
  /\ UNCHANGED <<scoringVars, frontVars, managerVars>>
  /\ UNCHANGED <<arcadeVars, frontVars, managerVars>>

\* BlackjackServiceImpl.Deal, from the end of the feature-flag awaits (nothing
\* is read or written before them) to the await on the Redis set
DealGrpc(u, bet, p1, p2, d1, d2) ==
  /\ dealt < Len(settled)
  /\ FreeCalls # {}
  /\ games' = [games EXCEPT ![u] = NewGame(p1, p2, d1, d2, bet)]
  /\ dealt' = dealt + 1
  /\ calls' = [calls EXCEPT ![MinOf(FreeCalls)] =
                 [op |-> "deal", user |-> u]]
  /\ event' = [op |-> "deal", user |-> u, step |-> "arrive", status |-> "ok"]
  /\ UNCHANGED <<settled, submitted>>
  /\ UNCHANGED <<scoringVars, frontVars, managerVars>>
  /\ UNCHANGED <<arcadeVars, frontVars, managerVars>>

\* Deal after the Redis set: the callback
DealFinish(s) ==
  /\ calls[s] # Idle
  /\ calls[s].op = "deal"
  /\ calls' = [calls EXCEPT ![s] = Idle]
  /\ event' = [op |-> "deal", user |-> calls[s].user, step |-> "resume",
               status |-> "done"]
  /\ UNCHANGED <<games, dealt, settled, submitted>>
  /\ UNCHANGED <<scoringVars, frontVars, managerVars>>
  /\ UNCHANGED <<arcadeVars, frontVars, managerVars>>

\* Hit, Stand, Double (gRPC) and /hit, /stand, /double (HTTP) without a hand:
\* 'No active hand'
NoActiveHand(op, u) ==
  /\ Lookup(u) = NoGame
  /\ event' = [op |-> op, user |-> u, step |-> "arrive",
                  status |-> "no_active_hand"]
  /\ UNCHANGED <<games, calls, dealt, settled, submitted>>
  /\ UNCHANGED <<scoringVars, frontVars, managerVars>>
  /\ UNCHANGED <<arcadeVars, frontVars, managerVars>>

\* app.post('/hit'): runs to completion
HitHttp(u, card) ==
  LET g == Lookup(u) IN
  /\ g # NoGame
  /\ Len(g.playerHand) < MaxHand
  /\ games' = [games EXCEPT ![u] = [g EXCEPT !.playerHand = Append(@, card)]]
  /\ event' = [op |-> "hit", user |-> u, step |-> "arrive", status |-> "ok",
                  playerScore |-> scoreHand(Append(g.playerHand, card))]
  /\ UNCHANGED <<calls, dealt, settled, submitted>>
  /\ UNCHANGED <<scoringVars, frontVars, managerVars>>
  /\ UNCHANGED <<arcadeVars, frontVars, managerVars>>

\* BlackjackServiceImpl.Hit up to the await on the Redis set
HitGrpc(u, card) ==
  LET g == Lookup(u) IN
  /\ g # NoGame
  /\ Len(g.playerHand) < MaxHand
  /\ FreeCalls # {}
  /\ games' = [games EXCEPT ![u] = [g EXCEPT !.playerHand = Append(@, card)]]
  /\ calls' = [calls EXCEPT ![MinOf(FreeCalls)] =
                 [op |-> "hit", user |-> u]]
  /\ event' = [op |-> "hit", user |-> u, step |-> "arrive", status |-> "ok",
                  playerScore |-> scoreHand(Append(g.playerHand, card))]
  /\ UNCHANGED <<dealt, settled, submitted>>
  /\ UNCHANGED <<scoringVars, frontVars, managerVars>>
  /\ UNCHANGED <<arcadeVars, frontVars, managerVars>>

\* Hit after the Redis set: the callback
HitFinish(s) ==
  /\ calls[s] # Idle
  /\ calls[s].op = "hit"
  /\ calls' = [calls EXCEPT ![s] = Idle]
  /\ event' = [op |-> "hit", user |-> calls[s].user, step |-> "resume",
               status |-> "done"]
  /\ UNCHANGED <<games, dealt, settled, submitted>>
  /\ UNCHANGED <<scoringVars, frontVars, managerVars>>
  /\ UNCHANGED <<arcadeVars, frontVars, managerVars>>

SettleEvent(u, g, final) ==
  LET playerScore == scoreHand(g.playerHand)
      result == SettleResult(playerScore, scoreHand(final))
  IN [op |-> "stand", user |-> u, step |-> "arrive", status |-> "settled",
         betAmount |-> g.betAmount, playerScore |-> playerScore,
         dealerHand |-> final, result |-> result,
         payout |-> SettlePayout(result, g.betAmount)]

\* app.post('/stand'): dealer draws, settlement, games.delete; no game result
\* is sent to the scoring service
StandHttp(u) ==
  LET g == Lookup(u) IN
  /\ g # NoGame
  /\ \E final \in DealerPlay(g.dealerHand) :
       event' = SettleEvent(u, g, final)
  /\ games' = [games EXCEPT ![u] = NoGame]
  /\ settled' = Bump(settled, g.id)
  /\ UNCHANGED <<calls, dealt, submitted>>
  /\ UNCHANGED <<scoringVars, frontVars, managerVars>>
  /\ UNCHANGED <<arcadeVars, frontVars, managerVars>>

\* BlackjackServiceImpl.Stand up to the await on the Redis del: dealer draws,
\* settlement, recordGameResult(...) started and not awaited. via is "direct" for a call from
\* a gRPC client and "frontend" for one made by POST /api/games/blackjack/stand.
StandGrpc(u, via) ==
  LET g == Lookup(u) IN
  /\ g # NoGame
  /\ FreeCalls # {}
  /\ \E final \in DealerPlay(g.dealerHand) :
       /\ event' = SettleEvent(u, g, final)
       /\ games' = [games EXCEPT ![u] = [g EXCEPT !.dealerHand = final]]
  /\ settled' = Bump(settled, g.id)
  /\ submitted' = Bump(submitted, g.id)
  /\ calls' = [calls EXCEPT ![MinOf(FreeCalls)] =
                 [op |-> "stand", user |-> u, via |-> via, id |-> g.id]]
  /\ UNCHANGED dealt
  /\ UNCHANGED <<scoringVars, frontVars, managerVars>>
  /\ UNCHANGED <<arcadeVars, frontVars, managerVars>>

\* Stand after the Redis del: games.delete(Username) and the callback; the
\* frontend proxy then posts a game result of its own
\* (updateBalanceFromGameResult)
StandFinish(s) ==
  /\ calls[s] # Idle
  /\ calls[s].op = "stand"
  /\ games' = [games EXCEPT ![calls[s].user] = NoGame]
  /\ submitted' = IF calls[s].via = "frontend"
                  THEN Bump(submitted, calls[s].id) ELSE submitted
  /\ calls' = [calls EXCEPT ![s] = Idle]
  /\ event' = [op |-> "stand", user |-> calls[s].user, step |-> "resume",
               status |-> "done"]
  /\ UNCHANGED <<dealt, settled>>
  /\ UNCHANGED <<scoringVars, frontVars, managerVars>>
  /\ UNCHANGED <<arcadeVars, frontVars, managerVars>>

\* Double (gRPC) and /double (HTTP), which take the same steps, up to the
\* await on getFeatureFlag. via is "direct" for a call from a client and
\* "frontend" for a gRPC call made by POST /api/games/blackjack/double.
DoubleStart(u, via) ==
  LET g == Lookup(u) IN
  /\ g # NoGame
  /\ Len(g.playerHand) < MaxHand
  /\ FreeCalls # {}
  /\ calls' = [calls EXCEPT ![MinOf(FreeCalls)] =
                 [op |-> "double", user |-> u, via |-> via, id |-> g.id]]
  /\ event' = [op |-> "double", user |-> u, step |-> "arrive",
                  status |-> "pending"]
  /\ UNCHANGED <<games, dealt, settled, submitted>>
  /\ UNCHANGED <<scoringVars, frontVars, managerVars>>
  /\ UNCHANGED <<arcadeVars, frontVars, managerVars>>

\* Double after getFeatureFlag answered false: 'Double-down feature is
\* disabled' (the frontend proxy answers 500 and records nothing)
DoubleDisabled(s) ==
  /\ calls[s] # Idle
  /\ calls[s].op = "double"
  /\ calls' = [calls EXCEPT ![s] = Idle]
  /\ event' = [op |-> "double", user |-> calls[s].user, step |-> "resume",
                  status |-> "disabled"]
  /\ UNCHANGED <<games, dealt, settled, submitted>>
  /\ UNCHANGED <<scoringVars, frontVars, managerVars>>
  /\ UNCHANGED <<arcadeVars, frontVars, managerVars>>

\* Double after getFeatureFlag answered true: one card and twice the bet on
\* the object g read before the await (inMap: it is still the user's entry of
\* the games map), then the callback; the frontend proxy then posts a game
\* result with action 'double'
DoubleFinish(s, card) ==
  LET u == calls[s].user
      inMap == games[u] # NoGame /\ games[u].id = calls[s].id
  IN
  /\ calls[s] # Idle
  /\ calls[s].op = "double"
  /\ inMap => Len(games[u].playerHand) < MaxHand
  /\ games' = IF inMap
              THEN [games EXCEPT ![u] =
                      [@ EXCEPT !.playerHand = Append(@, card),
                                !.betAmount = @ * 2]]
              ELSE games
  /\ submitted' = IF calls[s].via = "frontend"
                  THEN Bump(submitted, calls[s].id) ELSE submitted
  /\ calls' = [calls EXCEPT ![s] = Idle]
  /\ event' = [op |-> "double", user |-> u, step |-> "resume",
                  status |-> "ok", inMap |-> inMap, id |-> calls[s].id]
  /\ UNCHANGED <<dealt, settled>>
  /\ UNCHANGED <<scoringVars, frontVars, managerVars>>
  /\ UNCHANGED <<arcadeVars, frontVars, managerVars>>

\* ------------------------------------------------------------------- slots
NoRound == [op |-> "none", status |-> "none"]

\* winMultipliers[result.join('')] || 0
winMultipliersMut(result) ==
  IF result[1] = result[2] /\ result[2] = result[3]
  THEN CASE result[1] = "seven" -> 100
         [] result[1] = "diamond" -> 50
         [] result[1] = "star" -> 25
         [] result[1] = "bell" -> 10
         [] result[1] = "cherry" -> 5
         [] result[1] = "lemon" -> 2
         [] result[1] = "orange" -> 3
  ELSE 0
winMultipliers(result) ==
  IF result[1] = result[2] /\ result[2] = result[3]
  THEN CASE result[1] = "seven" -> 100
         [] result[1] = "diamond" -> 50
         [] result[1] = "star" -> 25
         [] result[1] = "bell" -> 10
         [] result[1] = "cherry" -> 5
         [] result[1] = "lemon" -> 3
         [] result[1] = "orange" -> 2
  ELSE 0

winTypeOf(result, multiplier) ==
  IF multiplier >= 100 THEN "jackpot"
  ELSE IF multiplier >= 25 THEN "big-win"
  ELSE IF multiplier >= 5 THEN "win"
  ELSE IF result[1] = result[2] \/ result[2] = result[3] THEN "near-miss"
  ELSE "none"

calculateWin(result, betAmount) ==
  LET multiplier == winMultipliers(result) IN
  [win |-> multiplier > 0,
   winAmount |-> IF multiplier > 0 THEN betAmount * multiplier ELSE 0,
   multiplier |-> multiplier,
   winType |-> winTypeOf(result, multiplier)]

\* bet_amount || 10, p.BetAmount || 10
SpinBetOrDefault(bet) == IF bet = 0 THEN 10 ELSE bet

\* betAmount < minBet || betAmount > maxBet
SpinBetInvalid(betAmount) == betAmount < MinBet \/ betAmount > MaxBet

\* cheatActive && cheatType === 'symbolControl' && Math.random() < 0.3
Boosted(result, boost) ==
  IF boost THEN [i \in 1..3 |-> "seven"] ELSE result

SpinAnswer(via, bet, betAmount, result, boost) ==
  LET w == calculateWin(Boosted(result, boost), betAmount) IN
  [op |-> "spin", via |-> via, status |-> "ok", asked |-> bet,
   result |-> Boosted(result, boost), win |-> w.win,
   winAmount |-> w.winAmount, betAmount |-> betAmount,
   multiplier |-> w.multiplier, winType |-> w.winType,
   cheatBoosted |-> boost]

\* SlotsServiceImpl.Spin with a bet outside slots.min-bet .. slots.max-bet:
\* INVALID_ARGUMENT before the reels are drawn
SpinRejected(bet) ==
  /\ SpinBetInvalid(SpinBetOrDefault(bet))
  /\ round' = [op |-> "spin", via |-> "grpc", status |-> "INVALID_ARGUMENT",
               asked |-> bet]
  /\ UNCHANGED <<recording, wamGames, wamNow, wamResp>>
  /\ UNCHANGED <<scoringVars, frontVars, managerVars>>
  /\ UNCHANGED bjVars
  /\ UNCHANGED recorded

\* SlotsServiceImpl.Spin: reels, calculateWin, recordGameResult(...) started
\* and not awaited, callback
SpinGrpc(bet, result, boost) ==
  /\ ~SpinBetInvalid(SpinBetOrDefault(bet))
  /\ round' = SpinAnswer("grpc", bet, SpinBetOrDefault(bet), result, boost)
  /\ recording' = "pending"
  /\ UNCHANGED <<wamGames, wamNow, wamResp>>
  /\ UNCHANGED <<scoringVars, frontVars, managerVars>>
  /\ UNCHANGED bjVars
  /\ UNCHANGED recorded

\* app.post('/spin'): no bet validation, no game result sent to scoring
SpinHttp(bet, result, boost) ==
  /\ round' = SpinAnswer("http", bet, SpinBetOrDefault(bet), result, boost)
  /\ UNCHANGED <<recording, wamGames, wamNow, wamResp>>
  /\ UNCHANGED <<scoringVars, frontVars, managerVars>>
  /\ UNCHANGED bjVars
  /\ UNCHANGED recorded

\* recordGameResult(...).catch(err => console.warn(...)): the call started by
\* a Spin resolves (outcome "ok") or rejects ("failed"); a rejection is
\* logged
RecordingSettledMut(outcome) ==
  /\ recording = "pending"
  /\ recording' = outcome
  /\ round' = IF outcome = "failed"
              THEN [op |-> "spin", via |-> "grpc", status |-> "INTERNAL",
                    asked |-> round.asked]
              ELSE round
  /\ UNCHANGED <<wamGames, wamNow, wamResp>>
  /\ UNCHANGED <<scoringVars, frontVars, managerVars>>
  /\ UNCHANGED bjVars
  /\ UNCHANGED recorded
RecordingSettled(outcome) ==
  /\ recording = "pending"
  /\ recording' = outcome
  /\ UNCHANGED <<round, wamGames, wamNow, wamResp>>
  /\ UNCHANGED <<scoringVars, frontVars, managerVars>>
  /\ UNCHANGED bjVars
  /\ UNCHANGED recorded

\* the same for the call the gRPC Stand of blackjack started for hand id
StandRecorded(id, outcome) ==
  /\ submitted[id] >= 1
  /\ recorded[id] = "none"
  /\ recorded' = [recorded EXCEPT ![id] = outcome]
  /\ UNCHANGED <<round, recording, wamGames, wamNow, wamResp>>
  /\ UNCHANGED <<scoringVars, frontVars, managerVars>>
  /\ UNCHANGED bjVars

\* -------------------------------------------------------------------- dice
\* the switch on betType: <<win, payoutMultiplier>>
RollRuleMut(betType, d1, d2) ==
  LET sum == d1 + d2 IN
  CASE betType = "pass" -> <<sum = 7 \/ sum = 11, 2>>
    [] betType = "dont_pass" -> <<sum = 2 \/ sum = 3, 2>>
    [] betType = "field" -> <<sum \in {2, 3, 4, 9, 10, 11, 12}, 2>>
    [] betType = "snake_eyes" -> <<d1 = 1 /\ d2 = 1, 30>>
    [] betType = "boxcars" -> <<d1 = 6 /\ d2 = 6, 30>>
    [] betType = "seven_out" -> <<sum = 7, 4>>
    [] OTHER -> <<FALSE, 0>>
RollRule(betType, d1, d2) ==
  LET sum == d1 + d2 IN
  CASE betType = "pass" -> <<sum = 7 \/ sum = 11, 2>>
    [] betType = "dont_pass" -> <<sum = 2 \/ sum = 3, 2>>
    [] betType = "field" -> <<sum \in {2, 3, 4, 9, 10, 11, 12}, 2>>
    [] betType = "snake_eyes" -> <<d1 = 1 /\ d2 = 1, 30>>
    [] betType = "boxcars" -> <<d1 = 6 /\ d2 = 6, 30>>
    [] betType = "seven_out" -> <<sum = 7, 4>>
    [] OTHER -> <<sum = 7 \/ sum = 11, 2>>

\* if betAmount == 0 { betAmount = 10 }
RollBetOrDefault(bet) == IF bet = 0 THEN 10 ELSE bet

\* if betType == "" { betType = "pass" }
BetTypeOrDefault(betType) == IF betType = "" THEN "pass" ELSE betType

\* d1 := 4, d2 := 3 ("TEMPORARY: Force winning dice for testing")
RolledDice == <<4, 3>>

RollAnswer(bet, betType, d1, d2) ==
  LET betAmount == RollBetOrDefault(bet)
      bt == BetTypeOrDefault(betType)
      rule == RollRule(bt, d1, d2)
  IN [op |-> "roll", via |-> "http", status |-> "ok", asked |-> bet,
      dice1 |-> d1, dice2 |-> d2, sum |-> d1 + d2, win |-> rule[1],
      payout |-> IF rule[1] THEN betAmount * rule[2] ELSE 0,
      betAmount |-> betAmount, betType |-> bt, payoutMultiplier |-> rule[2]]

\* rollHandler (POST /roll)
rollHandler(bet, betType) ==
  /\ round' = RollAnswer(bet, betType, RolledDice[1], RolledDice[2])
  /\ UNCHANGED <<recording, wamGames, wamNow, wamResp>>
  /\ UNCHANGED <<scoringVars, frontVars, managerVars>>
  /\ UNCHANGED bjVars
  /\ UNCHANGED recorded

\* ------------------------------------------------------------ whack-a-mole
\* The gRPC handlers on the games map; the HTTP handlers take the same steps
\* on a map of their own (games_http).
NoWam == [live |-> FALSE]
NoWamResp == [op |-> "none", status |-> "none"]

initializeGame ==
  [live |-> TRUE, score |-> 0, moles |-> INITIAL_MOLE_COUNT, hits |-> 0,
   misses |-> 0, startTime |-> wamNow, combo |-> 0, maxCombo |-> 0]

\* Math.max(0, hits * 100 + Math.floor(combo * 10) - misses * 5)
calculateScoreMut(hits, misses, combo) ==
  hits * 100 + combo * 10 - misses * 5
calculateScore(hits, misses, combo) ==
  LET baseScore == hits * 100
      comboBonus == combo * 10
      penalty == misses * 5
  IN IF baseScore + comboBonus - penalty > 0
     THEN baseScore + comboBonus - penalty ELSE 0

\* if (game.hits % 5 === 0 && game.moles < MAX_MOLES) game.moles++
MolesAfterHitMut(hits, moles) ==
  IF hits % 5 = 0 THEN moles + 1 ELSE moles
MolesAfterHit(hits, moles) ==
  IF hits % 5 = 0 /\ moles < MAX_MOLES THEN moles + 1 ELSE moles

\* game.maxCombo = Math.max(game.maxCombo, game.combo)
MaxComboAfterHitMut(maxCombo, combo) == combo
MaxComboAfterHit(maxCombo, combo) == IF combo > maxCombo THEN combo ELSE maxCombo

\* Date.now() - game.startTime > GAME_DURATION
GameOverMut(game) == FALSE
GameOver(game) == wamNow - game.startTime > GAME_DURATION

GameOverAnswer(op, u, game) ==
  [op |-> op, user |-> u, status |-> "game_over", finalScore |-> game.score,
   hits |-> game.hits, misses |-> game.misses, maxCombo |-> game.maxCombo]

\* StartGame: games.set(username, initializeGame())
StartGame(u) ==
  /\ wamGames' = [wamGames EXCEPT ![u] = initializeGame]
  /\ wamResp' = [op |-> "start", user |-> u, status |-> "started",
                 score |-> 0, moles |-> INITIAL_MOLE_COUNT]
  /\ UNCHANGED <<round, recording, wamNow>>
  /\ UNCHANGED <<scoringVars, frontVars, managerVars>>
  /\ UNCHANGED bjVars
  /\ UNCHANGED recorded

\* Hit, Miss, EndGame, GetStatus without a game: NOT_FOUND
WamNotFound(op, u) ==
  /\ ~wamGames[u].live
  /\ wamResp' = [op |-> op, user |-> u, status |-> "NOT_FOUND"]
  /\ UNCHANGED <<round, recording, wamGames, wamNow>>
  /\ UNCHANGED <<scoringVars, frontVars, managerVars>>
  /\ UNCHANGED bjVars
  /\ UNCHANGED recorded

\* Hit
Hit(u) ==
  LET game == wamGames[u] IN
  /\ game.live
  /\ IF GameOver(game)
     THEN /\ wamResp' = GameOverAnswer("hit", u, game)
          /\ UNCHANGED wamGames
     ELSE LET hits == game.hits + 1
              combo == game.combo + 1
              after == [game EXCEPT
                          !.hits = hits,
                          !.combo = combo,
                          !.maxCombo = MaxComboAfterHit(@, combo),
                          !.score = calculateScore(hits, game.misses, combo),
                          !.moles = MolesAfterHit(hits, @)]
          IN /\ game.hits < MaxHits
             /\ wamGames' = [wamGames EXCEPT ![u] = after]
             /\ wamResp' = [op |-> "hit", user |-> u, status |-> "hit",
                            score |-> after.score, hits |-> after.hits,
                            misses |-> after.misses, combo |-> after.combo,
                            moles |-> after.moles]
  /\ UNCHANGED <<round, recording, wamNow>>
  /\ UNCHANGED <<scoringVars, frontVars, managerVars>>
  /\ UNCHANGED bjVars
  /\ UNCHANGED recorded

\* Miss
Miss(u) ==
  LET game == wamGames[u] IN
  /\ game.live
  /\ IF GameOver(game)
     THEN /\ wamResp' = GameOverAnswer("miss", u, game)
          /\ UNCHANGED wamGames
     ELSE LET misses == game.misses + 1
              after == [game EXCEPT
                          !.misses = misses,
                          !.combo = 0,
                          !.score = calculateScore(game.hits, misses, 0)]
          IN /\ game.misses < MaxMisses
             /\ wamGames' = [wamGames EXCEPT ![u] = after]
             /\ wamResp' = [op |-> "miss", user |-> u, status |-> "miss",
                            score |-> after.score, hits |-> after.hits,
                            misses |-> after.misses, combo |-> after.combo]
  /\ UNCHANGED <<round, recording, wamNow>>
  /\ UNCHANGED <<scoringVars, frontVars, managerVars>>
  /\ UNCHANGED bjVars
  /\ UNCHANGED recorded

\* EndGame: games.delete(username)
EndGame(u) ==
  LET game == wamGames[u] IN
  /\ game.live
  /\ wamGames' = [wamGames EXCEPT ![u] = NoWam]
  /\ wamResp' = [op |-> "end", user |-> u, status |-> "ended",
                 finalScore |-> game.score, hits |-> game.hits,
                 misses |-> game.misses, maxCombo |-> game.maxCombo]
  /\ UNCHANGED <<round, recording, wamNow>>
  /\ UNCHANGED <<scoringVars, frontVars, managerVars>>
  /\ UNCHANGED bjVars
  /\ UNCHANGED recorded

\* time passes at the whack-a-mole service
WamTick ==
  /\ wamNow < MaxWamTicks * ClockStep
  /\ wamNow' = wamNow + ClockStep
  /\ UNCHANGED <<round, recording, wamGames, wamResp>>
  /\ UNCHANGED <<scoringVars, frontVars, managerVars>>
  /\ UNCHANGED bjVars
  /\ UNCHANGED recorded

\* ---------------------------------------------------------------- frontend
\* frontend-service.js keeps one balance per user in Redis and answers every
\* game request with a chain of awaits.  A request in flight is the list of
\* awaited steps it still has to take; between two awaited steps any other
\* request of the same user may run.  Redis itself answers every command
\* (the catch branches of the balance functions are not taken), and the
\* two fetch calls to the scoring service, which leave the balance alone,
\* are left out.
FeStep(k, d) == [k |-> k, d |-> d]

\* Math.max(0, x)
ClampAtZero(x) == IF x < 0 THEN 0 ELSE x

\* getUserBalance: the stored balance, or the start balance without a key
getUserBalance == IF stored = <<>> THEN DEFAULT_START_BALANCE ELSE stored[1]

\* let betAmount = req.body.BetAmount || req.body.betAmount || 0;
\* if (betAmount <= 0) betAmount = 10
FeBetAmount(b) == IF b <= 0 THEN 10 ELSE b

\* updateUserBalance(username, delta): await getUserBalance, then await
\* redisClient.set of Math.max(0, currentBalance + delta)
updateUserBalance(delta) == <<FeStep("read", delta), FeStep("write", delta)>>

\* updateBalanceFromGameResult(username, betAmount, result): deduct the bet,
\* add the payout if there is one, read the balance
updateBalanceFromGameResult(betAmount, payout) ==
  IF betAmount <= 0
  THEN <<>>
  ELSE updateUserBalance(0 - betAmount)
         \o (IF payout > 0 THEN updateUserBalance(payout) ELSE <<>>)
         \o <<FeStep("get", 0)>>

\* what a handler awaits up to and including its gRPC call
BeforeGrpc(op, bet) ==
  CASE op \in {"spin", "roll"} -> <<FeStep("check", bet), FeStep("grpc", 0)>>
    [] op \in {"deal", "double"} ->
         <<FeStep("check", bet)>> \o updateUserBalance(0 - bet)
           \o <<FeStep("grpc", 0)>>
    [] op = "stand" -> <<FeStep("get", 0), FeStep("grpc", 0)>>
    [] op = "topup" -> <<FeStep("get", 0)>> \o updateUserBalance(bet)

\* what a handler awaits after its gRPC call answered with a payout
AfterGrpc(op, bet, payout) ==
  CASE op \in {"spin", "roll"} -> updateBalanceFromGameResult(bet, payout)
    [] op = "deal" -> <<FeStep("get", 0)>>
    [] op = "stand" ->
         (IF payout > 0 THEN updateUserBalance(payout) ELSE <<>>)
           \o <<FeStep("get", 0)>>
           \o updateBalanceFromGameResult(bet, payout)
    [] op = "double" ->
         (IF payout > 0 THEN updateUserBalance(payout) ELSE <<>>)
           \o <<FeStep("get", 0)>>
           \o updateBalanceFromGameResult(bet * 2, payout)

FeIdle == [op |-> "idle", bet |-> 0, payout |-> 0, cur |-> 0, todo |-> <<>>]

NoFeEvent == [op |-> "none", step |-> "none", read |-> 0, delta |-> 0]

FeHistAt(balance) ==
  [started |-> 0, clamped |-> FALSE, base |-> balance, deltas |-> 0,
   phase |-> "none", dealBefore |-> 0, dealBet |-> 0, payout |-> 0]

FeNext(s) == Head(reqs[s].todo)

\* a request arrives: the route's handler runs up to its first await
FeRequest(s, op, b) ==
  /\ reqs[s] = FeIdle
  /\ feHist.started < MaxFeReqs
  /\ reqs' = [reqs EXCEPT ![s] =
       [op |-> op, bet |-> b, payout |-> 0, cur |-> 0,
        todo |-> BeforeGrpc(op, b)]]
  /\ feHist' = [feHist EXCEPT
       !.started = @ + 1,
       !.phase = IF op = "stand" /\ @ = "dealt" THEN "standing" ELSE "none"]
  /\ feEvent' = [op |-> op, step |-> "arrive", read |-> 0, delta |-> 0]
  /\ UNCHANGED stored

\* const currentBalance = await getUserBalance(username);
\* if (currentBalance < betAmount) return res.status(400)...
FeCheck(s) ==
  /\ reqs[s].todo # <<>>
  /\ FeNext(s).k = "check"
  /\ IF getUserBalance < FeNext(s).d
     THEN /\ reqs' = [reqs EXCEPT ![s] = FeIdle]
          /\ feEvent' = [op |-> reqs[s].op, step |-> "insufficient",
                         read |-> getUserBalance, delta |-> 0]
          /\ feHist' = [feHist EXCEPT !.phase = "none"]
     ELSE /\ reqs' = [reqs EXCEPT ![s].todo = Tail(@),
                                  ![s].cur = getUserBalance]
          /\ feEvent' = [op |-> reqs[s].op, step |-> "check",
                         read |-> getUserBalance, delta |-> 0]
          /\ feHist' = IF reqs[s].op = "deal"
                       THEN [feHist EXCEPT !.phase = "dealing",
                                           !.dealBefore = getUserBalance,
                                           !.dealBet = reqs[s].bet]
                       ELSE feHist
  /\ UNCHANGED stored

\* updateUserBalance, first half: const currentBalance = await getUserBalance
UpdateRead(s) ==
  /\ reqs[s].todo # <<>>
  /\ FeNext(s).k = "read"
  /\ reqs' = [reqs EXCEPT ![s].todo = Tail(@), ![s].cur = getUserBalance]
  /\ feEvent' = [op |-> reqs[s].op, step |-> "read",
                 read |-> getUserBalance, delta |-> FeNext(s).d]
  /\ UNCHANGED <<stored, feHist>>

\* updateUserBalance, second half: newBalance = Math.max(0, currentBalance +
\* delta); await redisClient.set(key, newBalance.toString())
UpdateWrite(s) ==
  /\ reqs[s].todo # <<>>
  /\ FeNext(s).k = "write"
  /\ stored' = <<ClampAtZero(reqs[s].cur + FeNext(s).d)>>
  /\ reqs' = [reqs EXCEPT ![s].todo = Tail(@)]
  /\ feEvent' = [op |-> reqs[s].op, step |-> "write",
                 read |-> reqs[s].cur, delta |-> FeNext(s).d]
  /\ feHist' = [feHist EXCEPT
       !.deltas = @ + FeNext(s).d,
       !.clamped = IF reqs[s].cur + FeNext(s).d < 0 THEN TRUE ELSE @]

\* const result = await grpcClients[gameId].<op>(grpcRequest): the game
\* service answers with a payout, or the call fails and the handler answers
\* 500 from its catch block
FeGrpc(s, ok, p) ==
  /\ reqs[s].todo # <<>>
  /\ FeNext(s).k = "grpc"
  /\ IF ok
     THEN /\ reqs' = [reqs EXCEPT
               ![s].payout = p,
               ![s].todo = Tail(@) \o AfterGrpc(reqs[s].op, reqs[s].bet, p)]
          /\ feEvent' = [op |-> reqs[s].op, step |-> "grpc",
                         read |-> 0, delta |-> p]
          /\ feHist' = IF reqs[s].op = "stand"
                       THEN [feHist EXCEPT !.payout = p]
                       ELSE feHist
     ELSE /\ reqs' = [reqs EXCEPT ![s] = FeIdle]
          /\ feEvent' = [op |-> reqs[s].op, step |-> "failed",
                         read |-> 0, delta |-> 0]
          /\ feHist' = [feHist EXCEPT !.phase = "none"]
  /\ UNCHANGED stored

\* an await getUserBalance whose value only goes into the answer
FeGet(s) ==
  /\ reqs[s].todo # <<>>
  /\ FeNext(s).k = "get"
  /\ reqs' = [reqs EXCEPT ![s].todo = Tail(@), ![s].cur = getUserBalance]
  /\ feEvent' = [op |-> reqs[s].op, step |-> "get",
                 read |-> getUserBalance, delta |-> 0]
  /\ UNCHANGED <<stored, feHist>>

\* res.json(...): the handler has nothing left to await
FeRespond(s) ==
  /\ reqs[s] # FeIdle
  /\ reqs[s].todo = <<>>
  /\ reqs' = [reqs EXCEPT ![s] = FeIdle]
  /\ feEvent' = [op |-> reqs[s].op, step |-> "respond",
                 read |-> reqs[s].cur, delta |-> 0]
  /\ feHist' = [feHist EXCEPT
       !.phase = CASE reqs[s].op = "deal" /\ @ = "dealing" -> "dealt"
                   [] reqs[s].op = "stand" /\ @ = "standing" -> "settled"
                   [] OTHER -> @]
  /\ UNCHANGED stored

\* ---------------------------------------------------------- service manager
\* service-manager.js: the services map, the child process of each entry and
\* the timers the manager has set.  A timer is the time it still has to run;
\* MgrTick lets TickMs pass once no timer is due.  A child is "alive", has
\* been sent SIGTERM ("signalled") or has "exited".
NoService == [status |-> "absent", process |-> "none"]

NoMgrResp == [op |-> "none", service |-> "", success |-> FALSE,
              message |-> ""]

MgrAnswer(op, n, success, message) ==
  [op |-> op, service |-> n, success |-> success, message |-> message]

Timer(kind, n, left) == [kind |-> kind, name |-> n, left |-> left]

\* this.services.has(serviceName)
HasService(n) == n \in ServiceNames /\ services[n] # NoService

\* what startService(serviceName) answers
StartAnswer(op, n) ==
  IF HasService(n)
  THEN MgrAnswer(op, n, FALSE, "Service already running")
  ELSE IF n \notin ServiceNames
       THEN MgrAnswer(op, n, FALSE, "Unknown service")
       ELSE MgrAnswer(op, n, TRUE, "Service started")

\* the services map after startService(serviceName): spawn the child and
\* register it as 'starting'
StartedServices(n) ==
  IF StartAnswer("start", n).success
  THEN [services EXCEPT ![n] = [status |-> "starting", process |-> "alive"]]
  ELSE services

\* the health-check timer startService sets for a child it spawned
StartedTimers(n) ==
  IF StartAnswer("start", n).success
  THEN {Timer("health", n, HealthDelay)}
  ELSE {}

\* the services map after stopService(serviceName): process.kill('SIGTERM')
\* and status 'stopping'; a child that has exited ignores the signal
StoppedServices(n) ==
  IF HasService(n)
  THEN [services EXCEPT ![n] =
         [status |-> "stopping",
          process |-> IF @.process = "alive" THEN "signalled"
                      ELSE @.process]]
  ELSE services

\* startService(serviceName) called through the API
startService(n) ==
  /\ mgrResp' = StartAnswer("start", n)
  /\ services' = StartedServices(n)
  /\ timers' = timers \cup StartedTimers(n)
  /\ restarting' = IF StartAnswer("start", n).success
                   THEN [restarting EXCEPT ![n] = FALSE]
                   ELSE restarting

\* stopService(serviceName)
stopService(n) ==
  /\ mgrResp' = IF HasService(n)
                THEN MgrAnswer("stop", n, TRUE, "Service stop signal sent")
                ELSE MgrAnswer("stop", n, FALSE, "Service not running")
  /\ services' = StoppedServices(n)
  /\ UNCHANGED <<timers, restarting>>

\* restartService(serviceName): stopService, then startService one second
\* later
restartService(n) ==
  /\ mgrResp' = MgrAnswer("restart", n, TRUE, "Service restart initiated")
  /\ services' = StoppedServices(n)
  /\ timers' = timers \cup {Timer("restart", n, RestartDelay)}
  /\ restarting' = IF HasService(n) /\ services[n].process = "alive"
                   THEN [restarting EXCEPT ![n] = TRUE]
                   ELSE restarting

\* the timer of restartService runs out: this.startService(serviceName)
RestartTimer(t) ==
  /\ t \in timers
  /\ t.kind = "restart"
  /\ t.left = 0
  /\ mgrResp' = StartAnswer("restart-start", t.name)
  /\ services' = StartedServices(t.name)
  /\ timers' = (timers \ {t}) \cup StartedTimers(t.name)
  /\ restarting' = IF StartAnswer("start", t.name).success
                   THEN [restarting EXCEPT ![t.name] = FALSE]
                   ELSE restarting

\* child.on('exit'): the child ends, by the signal or by itself; the entry,
\* if there is one, becomes 'stopped' and the removal timer is set
ProcessExit(n) ==
  /\ services[n].process \in {"alive", "signalled"}
  /\ services' = [services EXCEPT ![n] =
                    [status |-> "stopped", process |-> "exited"]]
  /\ timers' = timers \cup {Timer("remove", n, KeepStopped)}
  /\ UNCHANGED <<mgrResp, restarting>>

\* the removal timer runs out: the entry is deleted if it is still 'stopped'
RemoveTimer(t) ==
  /\ t \in timers
  /\ t.kind = "remove"
  /\ t.left = 0
  /\ services' = IF services[t.name].status = "stopped"
                 THEN [services EXCEPT ![t.name] = NoService]
                 ELSE services
  /\ timers' = timers \ {t}
  /\ UNCHANGED <<mgrResp, restarting>>

\* the health-check timer runs out: checkServiceHealth sends its request,
\* which is answered or times out within HealthTimeout
HealthTimer(t) ==
  /\ t \in timers
  /\ t.kind = "health"
  /\ t.left = 0
  /\ timers' = (timers \ {t}) \cup {Timer("probe", t.name, HealthTimeout)}
  /\ UNCHANGED <<services, mgrResp, restarting>>

\* checkServiceHealth resolves: only a child that still runs can answer 200;
\* the entry, if there is one, becomes 'running' or 'unhealthy'
HealthAnswer(t, healthy) ==
  /\ t \in timers
  /\ t.kind = "probe"
  /\ healthy => services[t.name].process \in {"alive", "signalled"}
  /\ services' = IF HasService(t.name)
                 THEN [services EXCEPT ![t.name].status =
                         IF healthy THEN "running" ELSE "unhealthy"]
                 ELSE services
  /\ timers' = timers \ {t}
  /\ UNCHANGED <<mgrResp, restarting>>

\* TickMs pass: every timer that is due has run
MgrTick ==
  /\ timers # {}
  /\ \A t \in timers : t.left > 0
  /\ timers' = {Timer(t.kind, t.name, t.left - TickMs) : t \in timers}
  /\ UNCHANGED <<services, mgrResp, restarting>>

\* --------------------------------------------------------- specifications
InitScoringTables ==
  /\ gameResults = <<>>
  /\ playerScores = <<>>
  /\ now = 0
  /\ tx = [s \in 1..MaxTx |-> NoTx]
  /\ resp = NoResp
  /\ dash = NoDash

InitBlackjack ==
  /\ games = [u \in Players |-> NoGame]
  /\ calls = [s \in 1..MaxCalls |-> Idle]
  /\ dealt = 0
  /\ settled = [i \in 1..MaxDeals |-> 0]
  /\ submitted = [i \in 1..MaxDeals |-> 0]
  /\ event = NoEvent

InitArcade ==
  /\ round = NoRound
  /\ recording = "none"
  /\ recorded = [i \in 1..MaxDeals |-> "none"]
  /\ wamGames = [u \in WamUsers |-> NoWam]
  /\ wamNow = 0
  /\ wamResp = NoWamResp

InitFront ==
  /\ stored = <<>>
  /\ reqs = [s \in 1..1 |-> FeIdle]
  /\ feEvent = NoFeEvent
  /\ feHist = FeHistAt(DEFAULT_START_BALANCE)

InitManager ==
  /\ services = [n \in ServiceNames |-> NoService]
  /\ timers = {}
  /\ mgrResp = NoMgrResp
  /\ restarting = [n \in ServiceNames |-> FALSE]

\* the scoring service called by one client at a time
Init ==
  /\ InitScoringTables
  /\ InitBlackjack
  /\ InitArcade
  /\ InitFront
  /\ InitManager
  /\ txLimit = 1

Reject == \E bet \in BetInputs : RejectGameResult(bet)
Begin == \E u \in ScoringUsers, g \in GameInputs, bet \in BetInputs, p \in PayoutInputs :
           BeginGameResult(u, g, bet, p, IF IsNull(p) THEN FALSE ELSE Val(p) > 0)
Abort == \E s \in 1..MaxTx : AbortGameResult(s)
Commit == \E s \in 1..MaxTx : CommitGameResult(s)
Record == \E u \in ScoringUsers, g \in GameInputs, sc \in ScoreInputs : RecordScore(u, g, sc)

Next == Reject \/ Begin \/ Abort \/ Commit \/ Record \/ Tick

Spec == Init /\ [][Next]_vars

\* the scoring service with a dashboard request running next to game-result
\* requests
DashT == \E g \in GameInputs : DashTotal(g)

NextDash ==
  \/ Begin \/ Abort \/ Commit \/ Tick
  \/ DashT \/ DashWins \/ DashBet \/ DashPayout \/ DashFinish

SpecDash == Init /\ [][NextDash]_vars

\* leaderboards over a player_scores table that recordScore calls have
\* filled before: each row carries the time of its insertion
BoardRows ==
  [username : BoardUsers, game : GameInputs, score : BoardScores, ts : BoardTimes]

BoardTables ==
  UNION {{[i \in 1..n |->
             [id |-> i, username |-> f[i].username, role |-> "player",
              game |-> f[i].game, score |-> f[i].score, ts |-> f[i].ts,
              metadata |-> [kind |-> "client"]]] :
          f \in {h \in [1..n -> BoardRows] :
                   \A i, j \in 1..n : i < j => h[i].ts <= h[j].ts}} :
         n \in 0..MaxBoardRows}

InitBoard ==
  /\ gameResults = <<>>
  /\ playerScores \in BoardTables
  /\ now = 1
  /\ tx = [s \in 1..MaxTx |-> NoTx]
  /\ resp = NoResp
  /\ dash = NoDash
  /\ txLimit = 1
  /\ InitBlackjack
  /\ InitArcade
  /\ InitFront
  /\ InitManager

NextBoard == \E game \in BoardGames, limit \in LimitInputs : GetLeaderboard(game, limit)

SpecBoard == InitBoard /\ [][NextBoard]_vars

\* the scoring service with requests for the dashboard of all games, during
\* which the queries for some games may throw
GetAll == \E failed \in SUBSET {"slots", "roulette", "dice", "blackjack"} :
            GetAllDashboards(failed)

NextAllDash == Begin \/ Abort \/ Commit \/ Tick \/ GetAll

SpecAllDash == Init /\ [][NextAllDash]_vars

\* the blackjack service: HTTP and gRPC handlers on one games map, and the
\* frontend proxy in front of the gRPC Stand and Double
DealH == \E u \in Players, bet \in DealBets, p1 \in Ranks, p2 \in Ranks,
            d1 \in Ranks, d2 \in Ranks : DealHttp(u, bet, p1, p2, d1, d2)
DealG == \E u \in Players, bet \in DealBets, p1 \in Ranks, p2 \in Ranks,
            d1 \in Ranks, d2 \in Ranks : DealGrpc(u, bet, p1, p2, d1, d2)
DealF == \E s \in DOMAIN calls : DealFinish(s)
NoHand == \E op \in {"hit", "stand", "double"}, u \in Players : NoActiveHand(op, u)
HitH == \E u \in Players, card \in Ranks : HitHttp(u, card)
HitG == \E u \in Players, card \in Ranks : HitGrpc(u, card)
HitF == \E s \in DOMAIN calls : HitFinish(s)
StandH == \E u \in Players : StandHttp(u)
StandG == \E u \in Players, via \in {"direct", "frontend"} : StandGrpc(u, via)
StandF == \E s \in DOMAIN calls : StandFinish(s)
DoubleS == \E u \in Players, via \in {"direct", "frontend"} : DoubleStart(u, via)
DoubleD == \E s \in DOMAIN calls : DoubleDisabled(s)
DoubleF == \E s \in DOMAIN calls, card \in Ranks : DoubleFinish(s, card)

NextBJ ==
  \/ DealH \/ DealG \/ DealF \/ NoHand \/ HitH \/ HitG \/ HitF
  \/ StandH \/ StandG \/ StandF \/ DoubleS \/ DoubleD \/ DoubleF

SpecBJ == Init /\ [][NextBJ]_vars

\* scoreHand on every hand: /deal and /hit with drawCard() returning any of
\* the thirteen ranks for the player's cards
AllRanks == 1..13
DealAny == \E u \in Players, p1 \in AllRanks, p2 \in AllRanks :
             DealHttp(u, 10, p1, p2, 13, 13)
HitAny == \E u \in Players, card \in AllRanks : HitHttp(u, card)

NextScoreHand == DealAny \/ HitAny

SpecScoreHand == Init /\ [][NextScoreHand]_vars

\* the slots service and the dice service answering one request after the
\* other: Math.random() picks any reels, a cheat may replace them
SpinR == \E bet \in SpinBets : SpinRejected(bet)
SpinG == \E bet \in SpinBets, result \in Reels, boost \in BOOLEAN :
           SpinGrpc(bet, result, boost)
SpinH == \E bet \in SpinBets, result \in Reels, boost \in BOOLEAN :
           SpinHttp(bet, result, boost)
Roll == \E bet \in RollBets, betType \in BetTypes : rollHandler(bet, betType)

NextRounds == SpinR \/ SpinG \/ SpinH \/ Roll

SpecRounds == Init /\ [][NextRounds]_vars

\* settlements and the recordGameResult calls they start: the gRPC Deal and
\* Stand of blackjack and the gRPC Spin of slots, with the scoring service
\* answering, failing or staying silent
SettleReels == {[i \in 1..3 |-> "seven"], [i \in 1..3 |-> "orange"],
                <<"cherry", "lemon", "orange">>}
SpinS == \E result \in SettleReels : SpinGrpc(10, result, FALSE)
Recorded == \E outcome \in {"ok", "failed"} : RecordingSettled(outcome)
StandR == \E id \in 1..MaxDeals, outcome \in {"ok", "failed"} :
            StandRecorded(id, outcome)

NextSettle == DealG \/ DealF \/ StandG \/ StandF \/ StandR \/ SpinS \/ Recorded

SpecSettle == Init /\ [][NextSettle]_vars

\* the blackjack service asked to deal again: one hand more than MaxDeals
InitRedeal ==
  /\ InitScoringTables
  /\ InitArcade
  /\ InitFront
  /\ InitManager
  /\ txLimit = 1
  /\ games = [u \in Players |-> NoGame]
  /\ calls = [s \in 1..MaxCalls |-> Idle]
  /\ dealt = 0
  /\ settled = [i \in 1..(MaxDeals + 1) |-> 0]
  /\ submitted = [i \in 1..(MaxDeals + 1) |-> 0]
  /\ event = NoEvent

NextRedeal == DealH \/ DealG \/ DealF \/ StandH

SpecRedeal == InitRedeal /\ [][NextRedeal]_vars

\* sessions left alone: requests that create a session (POST /deal,
\* StartGame) and the passing of time, which never stops
Start == \E u \in WamUsers : StartGame(u)

NextIdle == DealH \/ Start \/ WamTick

SpecIdle == Init /\ [][NextIdle]_vars /\ WF_vars(WamTick)

\* the whack-a-mole service
NotFound == \E op \in {"hit", "miss", "end"}, u \in WamUsers : WamNotFound(op, u)
Whack == \E u \in WamUsers : Hit(u)
Missed == \E u \in WamUsers : Miss(u)
End == \E u \in WamUsers : EndGame(u)

NextWam == Start \/ NotFound \/ Whack \/ Missed \/ End \/ WamTick

SpecWam == Init /\ [][NextWam]_vars

\* the gRPC blackjack service with one more call in flight than MaxCalls:
\* two Stand requests of one user at the same time
InitTwoStands ==
  /\ InitScoringTables
  /\ InitArcade
  /\ InitFront
  /\ InitManager
  /\ txLimit = 1
  /\ games = [u \in Players |-> NoGame]
  /\ calls = [s \in 1..(MaxCalls + 1) |-> Idle]
  /\ dealt = 0
  /\ settled = [i \in 1..MaxDeals |-> 0]
  /\ submitted = [i \in 1..MaxDeals |-> 0]
  /\ event = NoEvent

StandD == \E u \in Players : StandGrpc(u, "direct")

NextTwoStands == DealG \/ DealF \/ NoHand \/ StandD \/ StandF

SpecTwoStands == InitTwoStands /\ [][NextTwoStands]_vars

\* the frontend answering one request at a time: a blackjack round
InitFrontAt(slots) ==
  /\ stored \in StoredAtStart
  /\ reqs = [s \in 1..slots |-> FeIdle]
  /\ feEvent = NoFeEvent
  /\ feHist = FeHistAt(getUserBalance)

InitFeRound ==
  /\ InitScoringTables
  /\ InitBlackjack
  /\ InitArcade
  /\ InitManager
  /\ txLimit = 1
  /\ InitFrontAt(1)

FeDeal == \E s \in DOMAIN reqs, b \in FeBets :
            FeRequest(s, "deal", FeBetAmount(b)) /\ UNCHANGED otherVars
FeStand == \E s \in DOMAIN reqs, b \in FeBets :
             FeRequest(s, "stand", FeBetAmount(b)) /\ UNCHANGED otherVars
Check == \E s \in DOMAIN reqs : FeCheck(s) /\ UNCHANGED otherVars
Read == \E s \in DOMAIN reqs : UpdateRead(s) /\ UNCHANGED otherVars
Write == \E s \in DOMAIN reqs : UpdateWrite(s) /\ UNCHANGED otherVars
Grpc == \E s \in DOMAIN reqs, ok \in BOOLEAN, p \in FePayouts :
          FeGrpc(s, ok, p) /\ UNCHANGED otherVars
Get == \E s \in DOMAIN reqs : FeGet(s) /\ UNCHANGED otherVars
Respond == \E s \in DOMAIN reqs : FeRespond(s) /\ UNCHANGED otherVars

NextFeRound ==
  FeDeal \/ FeStand \/ Check \/ Read \/ Write \/ Grpc \/ Get \/ Respond

SpecFeRound == InitFeRound /\ [][NextFeRound]_vars

\* the frontend with two requests of one user in flight
InitFeRace ==
  /\ InitScoringTables
  /\ InitBlackjack
  /\ InitArcade
  /\ InitManager
  /\ txLimit = 1
  /\ InitFrontAt(2)

FeSpin == \E s \in DOMAIN reqs, b \in FeBets :
            FeRequest(s, "spin", FeBetAmount(b)) /\ UNCHANGED otherVars
FeRoll == \E s \in DOMAIN reqs, b \in FeBets :
            FeRequest(s, "roll", FeBetAmount(b)) /\ UNCHANGED otherVars
FeDouble == \E s \in DOMAIN reqs, b \in FeBets :
              FeRequest(s, "double", FeBetAmount(b)) /\ UNCHANGED otherVars
FeTopup == \E s \in DOMAIN reqs, a \in TopupAmounts :
             FeRequest(s, "topup", ClampAtZero(a)) /\ UNCHANGED otherVars

NextFeRace ==
  \/ FeSpin \/ FeRoll \/ FeDeal \/ FeStand \/ FeDouble \/ FeTopup
  \/ Check \/ Read \/ Write \/ Grpc \/ Get \/ Respond

SpecFeRace == InitFeRace /\ [][NextFeRace]_vars

\* the service manager: API calls at any time, children that end, timers
StartApi == \E n \in ServiceInputs : startService(n) /\ UNCHANGED hostedVars
StopApi == \E n \in ServiceInputs : stopService(n) /\ UNCHANGED hostedVars
RestartApi == \E n \in ServiceInputs : restartService(n) /\ UNCHANGED hostedVars
Exit == \E n \in ServiceNames : ProcessExit(n) /\ UNCHANGED hostedVars
SignalledExit ==
  \E n \in ServiceNames :
    services[n].process = "signalled" /\ ProcessExit(n) /\ UNCHANGED hostedVars
RestartDue == \E t \in timers : RestartTimer(t) /\ UNCHANGED hostedVars
RemoveDue == \E t \in timers : RemoveTimer(t) /\ UNCHANGED hostedVars
HealthDue == \E t \in timers : HealthTimer(t) /\ UNCHANGED hostedVars
Probed == \E t \in timers, healthy \in BOOLEAN :
            HealthAnswer(t, healthy) /\ UNCHANGED hostedVars
Elapse == MgrTick /\ UNCHANGED hostedVars

NextManager ==
  \/ StartApi \/ StopApi \/ RestartApi \/ Exit
  \/ RestartDue \/ RemoveDue \/ HealthDue \/ Probed \/ Elapse

SpecManager == Init /\ [][NextManager]_vars

\* time passes, a timer that is due runs, a health request is answered or
\* times out, and a child that was sent SIGTERM ends
SpecManagerFair ==
  /\ SpecManager
  /\ WF_vars(Elapse)
  /\ WF_vars(RestartDue)
  /\ WF_vars(RemoveDue)
  /\ WF_vars(HealthDue)
  /\ WF_vars(Probed)
  /\ WF_vars(SignalledExit)

\* ------------------------------------------------------------------ claims
\* C1: for every (username, game) pair that has a player_scores row, no step
\* of the scoring service removes the pair's rows or lowers the best payout
\* stored for the pair.
C1_BestPayoutNeverDecreases ==
  [][\A u \in ScoringUsers, g \in GameInputs :
       ScoreRowsOf(u, g) # {} =>
         /\ ScoreRowsOf(u, g)' # {}
         /\ BestScore(u, g)' >= BestScore(u, g)]_vars

\* a pair whose first recorded round paid 50 and whose second paid 30
C1_Witness ==
  /\ Len(gameResults) = 2
  /\ gameResults[1].username = gameResults[2].username
  /\ gameResults[1].game = gameResults[2].game
  /\ gameResults[1].payout = 50
  /\ gameResults[2].payout = 30
  /\ BestScore(gameResults[1].username, gameResults[1].game) = 50

\* C2: a game-result call whose betAmount is null, zero or negative is
\* answered 400 and leaves game_results, player_scores and every dashboard
\* statistic as they were.
C2_InvalidBetRejectedWithoutEffect ==
  [][(/\ resp' # resp
      /\ resp'.op = "gameResult"
      /\ (IF resp'.betAmount = <<>> THEN TRUE ELSE resp'.betAmount[1] <= 0))
     => /\ resp'.status = 400
        /\ gameResults' = gameResults
        /\ playerScores' = playerScores
        /\ \A g \in GameInputs : getDashboardStats(g)' = getDashboardStats(g)]_vars

\* a zero bet was rejected while both tables held rows
C2_Witness ==
  /\ resp.op = "gameResult"
  /\ resp.status = 400
  /\ resp.betAmount = <<0>>
  /\ Len(gameResults) > 0
  /\ Len(playerScores) > 0

\* C3: a Hit, Stand or Double for a username without an entry in the games
\* map fails with 'No active hand' and leaves the games map as it was; no
\* hand is dealt, settled or submitted by it.
C3_NoActiveHandLeavesGames ==
  [][\A u \in Players :
       (/\ event'.step = "arrive"
        /\ event'.op \in {"hit", "stand", "double"}
        /\ event'.user = u
        /\ games[u] = NoGame) =>
         /\ event'.status = "no_active_hand"
         /\ games' = games
         /\ dealt' = dealt
         /\ settled' = settled
         /\ submitted' = submitted]_vars

\* a Hit, Stand or Double was refused after the user's hand had been played
\* and removed
C3_Witness ==
  /\ event.status = "no_active_hand"
  /\ games[event.user] = NoGame
  /\ dealt > 0

\* C4: once a hand is settled the games map holds no entry for its user, and
\* a Hit, Stand or Double arriving for a user whose hand is settled fails
\* with 'No active hand'.
C4_SettlementTerminal ==
  [][\A u \in Players :
       /\ games'[u] # NoGame => settled'[games'[u].id] = 0
       /\ (/\ event'.step = "arrive"
           /\ event'.op \in {"hit", "stand", "double"}
           /\ event'.user = u
           /\ games[u] # NoGame
           /\ settled[games[u].id] > 0)
            => event'.status = "no_active_hand"]_vars

\* C5: every dealt round has one game-result submission if it was settled
\* and none if it was not.
C5_OneSubmissionPerSettlement ==
  \A id \in 1..MaxDeals :
    submitted[id] = IF settled[id] > 0 THEN 1 ELSE 0

\* C6: no handler for a user starts while another handler for the same user
\* is waiting on Redis or on the feature flag.
C6_SameUserSerialized ==
  [][\A u \in Players :
       (event'.step = "arrive" /\ event'.user = u) =>
         \A s \in 1..MaxCalls : calls[s] = Idle \/ calls[s].user # u]_vars

\* C7: a Hit that takes the player's score above 21 settles the round and
\* removes the session; a Hit that leaves it at 21 or less keeps the session.
C7_HitBustSettles ==
  [][\A u \in Players :
       (/\ event'.step = "arrive"
        /\ event'.op = "hit"
        /\ event'.user = u
        /\ event'.status = "ok") =>
         IF event'.playerScore > 21
         THEN /\ games'[u] = NoGame
              /\ settled'[games[u].id] > 0
         ELSE games'[u] # NoGame]_vars

\* C8: a successful Double on the user's hand doubles the bet, adds one card
\* and settles the round, removing the session.
C8_DoubleSettles ==
  [][(/\ event'.op = "double"
      /\ event'.step = "resume"
      /\ event'.status = "ok"
      /\ games[event'.user] # NoGame
      /\ games[event'.user].id = event'.id) =>
        /\ settled'[event'.id] > 0
        /\ games'[event'.user] = NoGame]_vars

C10_SettlementRule ==
  event.status = "settled" =>
    LET p == event.playerScore
        d == scoreHand(event.dealerHand)
    IN /\ p > 21 => event.result = "lose"
       /\ (p <= 21 /\ (d > 21 \/ p > d)) => event.result = "win"
       /\ (p <= 21 /\ d <= 21 /\ p = d) => event.result = "push"
       /\ (p <= 21 /\ d <= 21 /\ p < d) => event.result = "lose"
       /\ event.result = "win" => event.payout = 2 * event.betAmount
       /\ event.result = "push" => event.payout = event.betAmount
       /\ event.result = "lose" => event.payout = 0

\* a push at 20 against 20 gave the bet back
C10_Witness ==
  /\ event.status = "settled"
  /\ event.playerScore = 20
  /\ scoreHand(event.dealerHand) = 20
  /\ event.result = "push"
  /\ event.payout = event.betAmount

\* C11: the score /deal and /hit report for the player's hand is one of the
\* totals the hand can make (every ace 1 or 11, faces 10); it is above 21
\* only when the hand with every ace as 1 is above 21, and then it is that
\* total; otherwise it is the largest total of at most 21.
C11_ScoreHandSoftAces ==
  (event.step = "arrive" /\ event.status = "ok" /\ event.op \in {"deal", "hit"}) =>
    LET hand == games[event.user].playerHand
        aces == Cardinality({i \in 1..Len(hand) : hand[i] = 1})
        low == SumSeq([i \in 1..Len(hand) |->
                 IF hand[i] = 1 THEN 1
                 ELSE IF hand[i] \in {11, 12, 13} THEN 10 ELSE hand[i]])
        totals == {low + 10 * k : k \in 0..aces}
    IN /\ event.playerScore \in totals
       /\ event.playerScore > 21 => low > 21
       /\ low > 21 => event.playerScore = low
       /\ \A t \in totals : t <= 21 => event.playerScore >= t

\* three aces scored 13: two of them turned into 1, one stayed 11
C11_Witness ==
  /\ event.op = "hit"
  /\ event.status = "ok"
  /\ games[event.user].playerHand = <<1, 1, 1>>
  /\ event.playerScore = 13

\* C12: for every (username, game) pair with recorded game results, the best
\* score stored for the pair is the highest payout among the pair's results.
C12_BestIsMaxPayout ==
  \A u \in ScoringUsers, g \in GameInputs :
    LET results == {i \in 1..Len(gameResults) :
                      gameResults[i].username = u /\ gameResults[i].game = g}
    IN results # {} =>
         /\ ScoreRowsOf(u, g) # {}
         /\ BestScore(u, g) = MaxOf({gameResults[i].payout : i \in results})

\* C13: no step leaves more than one player_scores row for a (username,
\* game) pair, and no step removes a pair's row.
C13_OneRowPerPair ==
  [][\A u \in ScoringUsers, g \in GameInputs :
       /\ Cardinality(ScoreRowsOf(u, g)') <= 1
       /\ ScoreRowsOf(u, g) # {} => ScoreRowsOf(u, g)' # {}]_vars

\* C14: a recordGameResult call that commits with a payout not above the
\* score of the pair's row leaves that row's score and metadata as they
\* were, sets its timestamp to the time of the call, adds no row to
\* player_scores and adds the result to game_results.
C14_NotBetterRefreshesTimestamp ==
  [][\A s \in 1..MaxTx :
       (/\ tx[s] # NoTx
        /\ tx'[s] = NoTx
        /\ resp'.op = "gameResult"
        /\ resp'.status = 201
        /\ tx[s].existing # 0
        /\ Val(tx[s].payout) <= playerScores[tx[s].existing].score) =>
         LET i == tx[s].existing IN
         /\ playerScores'[i].score = playerScores[i].score
         /\ playerScores'[i].metadata = playerScores[i].metadata
         /\ playerScores'[i].ts = now
         /\ Len(playerScores') = Len(playerScores)
         /\ Len(gameResults') = Len(gameResults) + 1
         /\ gameResults'[Len(gameResults')].payout = Val(tx[s].payout)]_vars

\* payouts 50 then 30 a tick apart: the row keeps 50 and the first round's
\* metadata, with the time of the second round
C14_Witness ==
  /\ Len(gameResults) = 2
  /\ Len(playerScores) = 1
  /\ gameResults[1].game = gameResults[2].game
  /\ gameResults[1].payout = 50
  /\ gameResults[2].payout = 30
  /\ gameResults[1].ts = 0
  /\ gameResults[2].ts = 1
  /\ playerScores[1].score = 50
  /\ playerScores[1].metadata.winnings = 50
  /\ playerScores[1].metadata.timestamp = 0
  /\ playerScores[1].ts = 1

\* C15: every answer of getDashboardStats has a winRate from 0 to 100, and
\* a winRate of 0 when its totalGames is 0.
C15_WinRateInRange ==
  resp.op = "dashboard" =>
    /\ 0 <= resp.stats.winRate.num
    /\ resp.stats.winRate.num <= 100 * resp.stats.winRate.den
    /\ resp.stats.totalGames = 0 => resp.stats.winRate.num = 0

\* C17: every answer of getDashboardStats, also one computed while game
\* results are being committed, has totalWins <= totalGames and
\* totalLosses >= 0.
C17_DashboardSnapshot ==
  resp.op = "dashboard" =>
    /\ resp.stats.totalWins <= resp.stats.totalGames
    /\ resp.stats.totalLosses >= 0

\* C16: a recordGameResult call that commits a result for game g makes the
\* totalGames that getDashboardStats(g) reports one greater, and leaves the
\* totalGames of every other game as it was.
C16_TotalGamesRoundTrip ==
  [][Len(gameResults') = Len(gameResults) + 1 =>
       \A g \in GameInputs :
         getDashboardStats(g)'.totalGames =
           IF g = gameResults'[Len(gameResults')].game
           THEN getDashboardStats(g).totalGames + 1
           ELSE getDashboardStats(g).totalGames]_vars

\* a dice result was recorded after a blackjack result: one game each
C16_Witness ==
  /\ Len(gameResults) = 2
  /\ gameResults[1].game = "blackjack"
  /\ gameResults[2].game = "dice"
  /\ getDashboardStats("blackjack").totalGames = 1
  /\ getDashboardStats("dice").totalGames = 1

\* C19: the leaderboard over all games has at most N rows, one row per
\* username, each the user's highest-scoring row, in descending order of
\* score; users are reduced to one row before the list is cut to N, so it
\* has N rows when N users have rows and no user left out scores higher
\* than a user listed.
C19_AllGamesLeaderboard ==
  (resp.op = "leaderboard" /\ resp.game = "all") =>
    LET ids == resp.ids
        users == {playerScores[i].username : i \in 1..Len(playerScores)}
        best(u) == MaxOf({playerScores[i].score :
                            i \in {k \in 1..Len(playerScores) :
                                     playerScores[k].username = u}})
        listed == {playerScores[ids[k]].username : k \in 1..Len(ids)}
    IN /\ Len(ids) <= resp.limit
       /\ Len(ids) = IF Cardinality(users) < resp.limit
                     THEN Cardinality(users) ELSE resp.limit
       /\ \A k, l \in 1..Len(ids) :
            k # l => playerScores[ids[k]].username # playerScores[ids[l]].username
       /\ \A k \in 1..Len(ids) :
            playerScores[ids[k]].score = best(playerScores[ids[k]].username)
       /\ \A k, l \in 1..Len(ids) :
            k < l => playerScores[ids[k]].score >= playerScores[ids[l]].score
       /\ \A u \in users \ listed : \A v \in listed : best(u) <= best(v)

\* top 2 of all games when the two best rows are alice's: alice, then bob
C19_Witness ==
  /\ resp.op = "leaderboard"
  /\ resp.game = "all"
  /\ resp.limit = 2
  /\ Len(playerScores) = 3
  /\ playerScores[1].username = "alice" /\ playerScores[1].score = 50
  /\ playerScores[2].username = "alice" /\ playerScores[2].score = 50
  /\ playerScores[3].username = "bob" /\ playerScores[3].score = 30
  /\ Len(resp.ids) = 2
  /\ playerScores[resp.ids[1]].username = "alice"
  /\ resp.ids[2] = 3

\* C20: a per-game leaderboard lists rows by score descending, rows of equal
\* score by timestamp descending, and rows equal in both by id ascending.
C20_LeaderboardTieOrder ==
  (resp.op = "leaderboard" /\ resp.game # "all") =>
    \A k, l \in 1..Len(resp.ids) :
      k < l =>
        LET a == playerScores[resp.ids[k]]
            b == playerScores[resp.ids[l]]
        IN \/ a.score > b.score
           \/ a.score = b.score /\ a.ts > b.ts
           \/ a.score = b.score /\ a.ts = b.ts /\ a.id < b.id

\* C18: the answer of getAllGamesDashboardStats has four rows, for slots,
\* roulette, dice and blackjack in this order; the row of a game whose
\* statistics failed has zero counts, sums and rates and no top players, and
\* the row of every other game is what getDashboardStats gives for it.
C18_AllGamesRows ==
  [][(resp' # resp /\ resp'.op = "dashboardAll") =>
       LET rows == resp'.rows
           order == <<"slots", "roulette", "dice", "blackjack">>
       IN /\ Len(rows) = 4
          /\ \A i \in 1..4 :
               /\ rows[i].stats.game = order[i]
               /\ IF order[i] \in resp'.failed
                  THEN /\ rows[i].stats.totalGames = 0
                       /\ rows[i].stats.totalWins = 0
                       /\ rows[i].stats.totalLosses = 0
                       /\ rows[i].stats.winRate.num = 0
                       /\ rows[i].stats.totalBetAmount = 0
                       /\ rows[i].stats.totalPayout = 0
                       /\ rows[i].stats.netRevenue = 0
                       /\ rows[i].stats.averageBetAmount.num = 0
                       /\ rows[i].stats.averagePayout.num = 0
                       /\ rows[i].stats.recentGames = 0
                       /\ rows[i].topPlayers = <<>>
                  ELSE /\ rows[i].stats = getDashboardStats(order[i])'
                       /\ rows[i].topPlayers \in getTopPlayers(order[i], 10)']_vars

\* blackjack failed while dice, with a recorded result, was reported
C18_Witness ==
  /\ resp.op = "dashboardAll"
  /\ resp.failed = {"blackjack"}
  /\ resp.rows[4].stats.totalGames = 0
  /\ countTotalByGame("blackjack") = 1
  /\ resp.rows[3].stats.totalGames = 1
  /\ Len(resp.rows[3].topPlayers) = 1

\* C21: every settlement pays at most the bet times the largest multiplier of
\* the game's rule table: slots at most 100 times, dice at most 30 times,
\* blackjack at most 2 times the bet in force at settlement
C21_PayoutWithinRuleTable ==
  /\ (round.op = "spin" /\ round.status = "ok")
       => round.winAmount <= round.betAmount * 100
  /\ (round.op = "roll" /\ round.status = "ok")
       => round.payout <= round.betAmount * 30
  /\ (event.op = "stand" /\ event.status = "settled")
       => event.payout <= event.betAmount * 2

\* C22: the answer to a Spin carries the multiplier 100, 50, 25, 10, 5, 3, 2
\* for three sevens, diamonds, stars, bells, cherries, lemons, oranges and 0
\* for every other reel combination; win is true exactly when the multiplier
\* is greater than 0, and the win amount is the bet times the multiplier
C22_SlotsMultiplierTable ==
  (round.op = "spin" /\ round.status = "ok") =>
    LET table == ("seven" :> 100) @@ ("diamond" :> 50) @@ ("star" :> 25) @@
                 ("bell" :> 10) @@ ("cherry" :> 5) @@ ("lemon" :> 3) @@
                 ("orange" :> 2)
        r == round.result
        m == IF r[1] = r[2] /\ r[2] = r[3] THEN table[r[1]] ELSE 0
    IN /\ round.multiplier = m
       /\ round.win = (m > 0)
       /\ round.winAmount = round.betAmount * m

\* three sevens at bet 10 pay 1000
C22_Witness ==
  /\ round.op = "spin"
  /\ round.status = "ok"
  /\ round.result = <<"seven", "seven", "seven">>
  /\ round.betAmount = 10
  /\ round.winAmount = 1000

C24_EveryDicePairPossible ==
  /\ (round.op = "roll" /\ round.status = "ok")
       => (round.dice1 \in 1..6 /\ round.dice2 \in 1..6)
  /\ \A d1 \in 1..6, d2 \in 1..6 :
       ENABLED (Roll /\ round'.dice1 = d1 /\ round'.dice2 = d2)
  /\ \A bt \in BetTypes \ {""} :
       /\ ENABLED (Roll /\ round'.betType = bt /\ round'.win)
       /\ ENABLED (Roll /\ round'.betType = bt /\ ~round'.win)

\* C25: a Spin or a Roll asked with a bet amount of zero or less is rejected
\* with a validation error and nothing is applied: no reels or dice are
\* drawn, no payout is computed and no game result is submitted
C25_NonPositiveBetRejected ==
  [][(round' # round /\ round'.op \in {"spin", "roll"} /\ round'.asked <= 0)
       => (round'.status = "INVALID_ARGUMENT" /\ UNCHANGED recording)]_vars

\* C26: the settlement answered by the gRPC Stand and by the gRPC Spin does
\* not wait for the recordGameResult call and does not depend on it: the
\* Spin answers in the step that starts the call; the Stand settles in the
\* step that starts the call and, suspended after it, can finish whatever
\* the state of the call, in the same way; the call's success or failure
\* changes neither an answer nor the games map, the suspended calls or the
\* hands settled
C26_AnswerIndependentOfRecording ==
  [][/\ (recording' # recording /\ recording' \in {"ok", "failed"})
          => UNCHANGED <<round, event, games, calls, dealt, settled, submitted>>
     /\ (recorded' # recorded)
          => UNCHANGED <<round, event, games, calls, dealt, settled, submitted>>
     /\ (round' # round /\ round'.op = "spin" /\ round'.status = "ok")
          => /\ recording' = "pending"
             /\ round'.win = calculateWin(round'.result, round'.betAmount).win
             /\ round'.winAmount =
                  calculateWin(round'.result, round'.betAmount).winAmount
     /\ \A s \in 1..MaxCalls :
          /\ (calls[s] = Idle /\ calls'[s] # Idle /\ calls'[s].op = "stand")
               => /\ submitted'[calls'[s].id] = submitted[calls'[s].id] + 1
                  /\ settled'[calls'[s].id] = settled[calls'[s].id] + 1
                  /\ event'.status = "settled"
                  /\ event'.payout = SettlePayout(event'.result, event'.betAmount)
          /\ (calls[s] # Idle /\ calls[s].op = "stand")
               => /\ ENABLED StandFinish(s)
                  /\ (calls'[s] = Idle)
                       => /\ event' = [op |-> "stand", user |-> calls[s].user,
                                        step |-> "resume", status |-> "done"]
                          /\ games'[calls[s].user] = NoGame
                          /\ UNCHANGED <<settled, recorded, recording>>]_vars

\* a Spin and a Stand have answered and their recordGameResult calls failed
C26_Witness ==
  /\ round.op = "spin"
  /\ round.status = "ok"
  /\ recording = "failed"
  /\ event.op = "stand"
  /\ event.step = "resume"
  /\ settled[1] = 1
  /\ recorded[1] = "failed"

\* C27: a blackjack hand leaves the games map only by its settlement: in
\* every step after which a username's entry is no longer the hand it was,
\* that hand has been settled (the service has no timeout); a Deal for a
\* username with an unsettled hand does not discard or replace the hand
C27_HandLeavesOnlySettled ==
  [][\A u \in Players :
       (games[u] # NoGame /\ games'[u].id # games[u].id)
         => settled'[games[u].id] >= 1]_vars

\* C28: sessions are time-bounded: a blackjack hand or a whack-a-mole game
\* that gets no request after its creation is eventually removed from the
\* service's games map
C28_SessionsEventuallyRemoved ==
  /\ \A u \in WamUsers : wamGames[u].live ~> ~wamGames[u].live
  /\ \A u \in Players : (games[u] # NoGame) ~> (games[u] = NoGame)

\* C29: after any sequence of Hit and Miss the stored score of a whack-a-mole
\* game is max(0, hits*100 + combo*10 - misses*5) for the game's current
\* hits, misses and combo, and is never negative
C29_ScoreFormula ==
  \A u \in WamUsers :
    wamGames[u].live =>
      LET g == wamGames[u] IN
      /\ g.score = MaxOf({0, g.hits * 100 + g.combo * 10 - g.misses * 5})
      /\ g.score >= 0

\* a miss before any hit: the score stays 0 instead of -5
C29_Witness ==
  \E u \in WamUsers :
    /\ wamGames[u].live
    /\ wamGames[u].hits = 0
    /\ wamGames[u].misses = 1
    /\ wamGames[u].score = 0
    /\ wamResp.op = "miss"
    /\ wamResp.status = "miss"

\* C30: the mole count of a whack-a-mole game starts at 3, grows by one on
\* every fifth hit while it is below 8 and never exceeds 8: it is
\* min(8, 3 + floor(hits / 5))
C30_MoleCount ==
  \A u \in WamUsers :
    wamGames[u].live =>
      /\ wamGames[u].moles = MinOf({MAX_MOLES,
                                    INITIAL_MOLE_COUNT + (wamGames[u].hits \div 5)})
      /\ wamGames[u].moles <= 8
      /\ wamGames[u].hits = 0 => wamGames[u].moles = 3

\* the thirtieth hit: the count stays at 8
C30_Witness ==
  \E u \in WamUsers :
    /\ wamGames[u].live
    /\ wamGames[u].hits = 30
    /\ wamGames[u].moles = 8
    /\ wamResp.op = "hit"
    /\ wamResp.status = "hit"

\* C31: in a whack-a-mole game every Hit increases combo by one and every
\* Miss resets combo to 0; maxCombo is the largest combo reached so far:
\* combo <= maxCombo <= hits, and maxCombo never decreases during a game
C31_ComboAndMaxCombo ==
  [][\A u \in WamUsers :
       LET g == wamGames[u]
           h == wamGames'[u]
       IN /\ h.live => (h.combo <= h.maxCombo /\ h.maxCombo <= h.hits)
          /\ (g.live /\ h.live /\ wamResp' # wamResp) =>
               /\ wamResp'.status = "hit" =>
                    (h.combo = g.combo + 1 /\ h.hits = g.hits + 1)
               /\ wamResp'.status = "miss" =>
                    (h.combo = 0 /\ h.misses = g.misses + 1)
               /\ wamResp'.status \in {"hit", "miss", "game_over"} =>
                    /\ h.maxCombo >= g.maxCombo
                    /\ h.maxCombo = IF h.combo > g.maxCombo THEN h.combo
                                     ELSE g.maxCombo]_vars

\* a Hit after a Miss that ended a longer run: combo 1, maxCombo 2, hits 3
C31_Witness ==
  \E u \in WamUsers :
    /\ wamGames[u].live
    /\ wamGames[u].combo = 1
    /\ wamGames[u].maxCombo = 2
    /\ wamGames[u].hits = 3
    /\ wamGames[u].misses = 1
    /\ wamResp.status = "hit"

\* C32: once more than GAME_DURATION (60 seconds) have passed since a game
\* was started, Hit and Miss answer game over and leave the game's score,
\* hits, misses, combo, maxCombo and moles as they are
C32_GameOverLeavesGame ==
  [][\A u \in WamUsers :
       (/\ wamGames[u].live
        /\ wamNow - wamGames[u].startTime > 60000
        /\ wamResp' # wamResp
        /\ wamResp'.op \in {"hit", "miss"}
        /\ wamResp'.user = u)
         => /\ wamResp'.status = "game_over"
            /\ wamGames'[u] = wamGames[u]
            /\ wamResp'.finalScore = wamGames[u].score]_vars

\* a Hit on a game with hits, 90 seconds after its start
C32_Witness ==
  \E u \in WamUsers :
    /\ wamGames[u].live
    /\ wamGames[u].hits > 0
    /\ wamNow - wamGames[u].startTime = 90000
    /\ wamResp.op = "hit"
    /\ wamResp.status = "game_over"
    /\ wamResp.finalScore = wamGames[u].score

\* C33: a dealt hand is settled at most once under any interleaving: when a
\* gRPC Stand arrives for a username while another gRPC Stand of that
\* username is in flight, it fails with 'No active hand', computes no payout
\* and submits no game result
C33_ConcurrentStandsSettleOnce ==
  [][\A u \in Players :
       /\ \A id \in DOMAIN settled : settled'[id] <= 1 /\ submitted'[id] <= 1
       /\ (/\ event'.op = "stand"
           /\ event'.step = "arrive"
           /\ event'.user = u
           /\ \E s \in DOMAIN calls :
                calls[s] # Idle /\ calls[s].op = "stand" /\ calls[s].user = u)
            => /\ event'.status = "no_active_hand"
               /\ UNCHANGED <<settled, submitted>>]_vars

\* C34: a blackjack round played through the frontend, a deal with bet b
\* answered and then a stand answered with payout p, with no balance update
\* clamped at zero, leaves the stored balance at the balance read before the
\* deal minus b plus p.
C34_RoundBalance ==
  (feHist.phase = "settled" /\ ~feHist.clamped)
    => getUserBalance = feHist.dealBefore - feHist.dealBet + feHist.payout

\* C35: whenever a spin, roll, deal or double request deducts a bet, the
\* balance updateUserBalance read right before the deduction is at least the
\* amount deducted, whatever other requests of the user are in flight.
C35_BetWithinBalance ==
  (/\ feEvent.step = "write"
   /\ feEvent.delta < 0
   /\ feEvent.op \in {"spin", "roll", "deal", "double"})
    => feEvent.read >= 0 - feEvent.delta

\* C36: once every request of the user has been answered and no update was
\* clamped at zero, the stored balance is the initial balance plus the sum
\* of the deltas of all updateUserBalance calls, also when the calls ran
\* concurrently.
C36_NoLostUpdate ==
  ((\A s \in DOMAIN reqs : reqs[s] = FeIdle) /\ ~feHist.clamped)
    => getUserBalance = feHist.base + feHist.deltas

\* C37: restartService(name) on a service whose child runs leads to a state
\* where startService has spawned a new child for it, so that the service
\* has a live process again.
C37_RestartLeadsToStart ==
  \A n \in ServiceNames :
    restarting[n] ~> (~restarting[n] /\ services[n].process = "alive")

\* C38: once the child of a managed service has exited, its entry is
\* eventually removed from the services map, under every ordering of the
\* start, exit, health-check and stopService events.
C38_ExitedEntryEventuallyRemoved ==
  \A n \in ServiceNames :
    (services[n].process = "exited") ~> (services[n] = NoService)

====
